---------------------------- MODULE Spec2Model ----------------------------
(***************************************************************************)
(* Model of the ADMesh triangle-mesh repair core                           *)
(* (src/src/admesh/connect.cpp): the exact and nearby edge hashing passes, *)
(* removal of degenerate / unconnected facets and hole filling.            *)
(*                                                                         *)
(* Indices are those of the C code: facets and neighbour slots are         *)
(* numbered from 0, the "none" neighbour is -1.                            *)
(***************************************************************************)
EXTENDS Integers, Sequences, FiniteSets, TLC

VARIABLES
    stl,        \* the stl_file structure: facet_start, neighbors_start, stats, heads, ...
    phase,      \* "loaded" | "built" (stl_check_facets_exact has run) | "hung"
    hsel,       \* which hash function of the family stl_hash_edge::hash is
    npass,      \* number of passes run so far (bounded by MaxPasses)
    last,       \* name of the last pass run
    prev,       \* the stl_file structure as it was before the last pass
    fn_in,      \* the input: the facets of the mesh loaded, or the argument of the function under check
    fn_out,     \* its result
    fn_pc       \* "mesh" (a mesh is loaded) | "in", "out" (SpecHash) |
                \* "key", "keyed", "matched" (SpecKey) | "object", "stats", "errors" (SpecStats) |
                \* "queue" (SpecQueue)

vars == <<stl, phase, hsel, npass, last, prev, fn_in, fn_out, fn_pc>>

-----------------------------------------------------------------------------
(* Bounds of the model.                                                    *)

MaxFacets == 4      \* facets of a loaded mesh
MaxPasses == 3      \* passes run on one mesh
MaxSmallCount == 12 \* the facet counts 0..MaxSmallCount are tried for the hash-table size

-----------------------------------------------------------------------------
(* 32-bit floats.  A float is <<sign, magnitude>> (IEEE-754 is a           *)
(* sign-magnitude format); only the magnitudes 0, 1, 4 and 5 are used.     *)
(* FloatBytes is the little-endian memory image of the float, FloatVal     *)
(* its numerical value.  <<1, 0>> is negative zero, 0x80000000.            *)

Floats == {<<0, 0>>, <<1, 0>>, <<0, 1>>, <<0, 4>>, <<0, 5>>, <<1, 1>>}

FloatVal(f) == IF f[1] = 1 THEN 0 - f[2] ELSE f[2]

\* IEEE-754 single precision, little endian: 1.0 = 0x3F800000, 4.0 = 0x40800000,
\* 5.0 = 0x40A00000.
FloatBytes(f) ==
    LET mag == CASE f[2] = 0 -> <<0, 0, 0, 0>>
                 [] f[2] = 1 -> <<0, 0, 128, 63>>
                 [] f[2] = 4 -> <<0, 0, 128, 64>>
                 [] f[2] = 5 -> <<0, 0, 160, 64>>
    IN  [mag EXCEPT ![4] = mag[4] + 128 * f[1]]

\* Eigen's operator== on stl_vertex: component-wise comparison of the floats.
VertexEq(a, b) == \A c \in 1..3 : FloatVal(a[c]) = FloatVal(b[c])

\* stl_vertex_lower (stl.h): lexicographic order on the three components.
stl_vertex_lower(a, b) ==
    IF FloatVal(a[1]) # FloatVal(b[1]) THEN FloatVal(a[1]) < FloatVal(b[1])
    ELSE IF FloatVal(a[2]) # FloatVal(b[2]) THEN FloatVal(a[2]) < FloatVal(b[2])
    ELSE FloatVal(a[3]) < FloatVal(b[3])

Abs(x) == IF x < 0 THEN 0 - x ELSE x
Max2(x, y) == IF x < y THEN y ELSE x
Min2(x, y) == IF x < y THEN x ELSE y

-----------------------------------------------------------------------------
(* Keys of hash edges: six 32-bit words, each four bytes in memory.        *)

\* memcpy(&edge->key[0], a->data(), sizeof(stl_vertex)); same for b at key[3]
KeyOf(a, b) == [w \in 0..5 |-> IF w < 3 THEN FloatBytes(a[w + 1]) ELSE FloatBytes(b[w - 2])]

\* mutant of NormalizeWord: tests only the top byte, so that -1.0 and -4.0 lose their sign too
NormalizeWord_topbyte(p) == IF p[4] >= 128 THEN [p EXCEPT ![4] = p[4] - 128] ELSE p

\* one step of the loop of stl_load_edge_exact that removes negative zeros (little endian)
NormalizeWord(p) ==
    IF p[1] = 0 /\ p[2] = 0 /\ p[3] = 0 /\ p[4] = 128 THEN [p EXCEPT ![4] = 0] ELSE p

NormalizeKey(key) == [w \in 0..5 |-> NormalizeWord(key[w])]

-----------------------------------------------------------------------------
(* size_t arithmetic (64 bits, unsigned), as four 16-bit limbs, least      *)
(* significant first.                                                      *)

Limb == 65536

\* conversion of a non-negative int (or a uint32_t below 2^31) to size_t
SizeT(n) == <<n % Limb, n \div Limb, 0, 0>>

\* x * k modulo 2^64, for a small k
SizeMul(x, k) ==
    LET p0 == x[1] * k
        p1 == x[2] * k + p0 \div Limb
        p2 == x[3] * k + p1 \div Limb
        p3 == x[4] * k + p2 \div Limb
    IN  <<p0 % Limb, p1 % Limb, p2 % Limb, p3 % Limb>>

\* x - 1 modulo 2^64: 0 - 1 is 0xFFFFFFFFFFFFFFFF
SizeDec(x) ==
    IF x[1] > 0 THEN [x EXCEPT ![1] = x[1] - 1]
    ELSE IF x[2] > 0 THEN <<Limb - 1, x[2] - 1, x[3], x[4]>>
    ELSE IF x[3] > 0 THEN <<Limb - 1, Limb - 1, x[3] - 1, x[4]>>
    ELSE IF x[4] > 0 THEN <<Limb - 1, Limb - 1, Limb - 1, x[4] - 1>>
    ELSE <<Limb - 1, Limb - 1, Limb - 1, Limb - 1>>

\* x < y on size_t
SizeLess(x, y) ==
    IF x[4] # y[4] THEN x[4] < y[4]
    ELSE IF x[3] # y[3] THEN x[3] < y[3]
    ELSE IF x[2] # y[2] THEN x[2] < y[2]
    ELSE x[1] < y[1]

\* the table of hash_size_from_nr_faces
primes == <<98317, 196613, 393241, 786433, 1572869, 3145739, 6291469, 12582917,
            25165843, 50331653, 100663319, 201326611, 402653189, 805306457,
            1610612741>>

\* std::upper_bound(primes.begin(), primes.end(), value): the position of the
\* first element that value is less than, Len(primes) + 1 for primes.end()
RECURSIVE upper_bound(_, _)
upper_bound(value, it) ==
    IF it > Len(primes) THEN it
    ELSE IF SizeLess(value, SizeT(primes[it])) THEN it
    ELSE upper_bound(value, it + 1)

hash_size_from_nr_faces(nr_faces) ==
    LET it == upper_bound(SizeDec(SizeMul(SizeMul(SizeT(nr_faces), 3), 2)), 1)
    IN  IF it > Len(primes) THEN primes[Len(primes)] ELSE primes[it]

-----------------------------------------------------------------------------
(* The hash table of edges.  heads is kept sparse: a bucket that is not in *)
(* DOMAIN heads holds the sentinel tail, i.e. an empty chain; a chain is   *)
(* the sequence of its records from heads[chain_number] to the tail.       *)

\* the members of the family of hash functions: hsel = 1 puts every key in
\* one bucket, HashWide spreads them
HashWide == 98317
HashSel == {1, HashWide}

RECURSIVE KeySum(_, _)
KeySum(key, w) ==
    IF w > 5 THEN 0
    ELSE (w + 1) * (key[w][1] + 3 * key[w][2] + 5 * key[w][3] + 7 * key[w][4])
         + KeySum(key, w + 1)

\* stl_hash_edge::hash(M) (stl.h): some function of the 24 key bytes
hash(edge, M) == (KeySum(edge.key, 0) % hsel) % M

\* stl_hash_edge::operator!= (stl.h): memcmp of the keys
KeyNe(edge_a, edge_b) == edge_a.key # edge_b.key

\* a comparison that looks at the facet numbers only: any two edges of different
\* facets are a match
stl_compare_function_nokey(edge_a, edge_b) ==
    edge_a.facet_number = edge_b.facet_number

\* returns TRUE (1) if the edges are not matched
stl_compare_function(edge_a, edge_b) ==
    (edge_a.facet_number = edge_b.facet_number) \/ KeyNe(edge_a, edge_b)

Chain(s, c) == IF c \in DOMAIN s.heads THEN s.heads[c] ELSE << >>

SetChain(s, c, chain) ==
    [s EXCEPT !.heads = [b \in IF chain = << >> THEN (DOMAIN s.heads) \ {c}
                                                ELSE (DOMAIN s.heads) \cup {c} |->
                            IF b = c THEN chain ELSE s.heads[b]]]

RemoveAt(chain, p) == [q \in 1..(Len(chain) - 1) |-> IF q < p THEN chain[q] ELSE chain[q + 1]]

Unconnected(n) == (IF n.neighbor[0] = -1 THEN 1 ELSE 0)
                + (IF n.neighbor[1] = -1 THEN 1 ELSE 0)
                + (IF n.neighbor[2] = -1 THEN 1 ELSE 0)

\* NULL for a hash-edge pointer that is not set
NoHeads == << >>

stl_initialize_facet_check_nearby(s) ==
    IF s.error THEN s
    ELSE [s EXCEPT !.stats.malloced = 0, !.stats.freed = 0, !.stats.collisions = 0,
                   !.M = hash_size_from_nr_faces(s.stats.number_of_facets),
                   !.heads = NoHeads, !.table = TRUE]

stl_initialize_facet_check_exact(s) ==
    IF s.error THEN s
    ELSE [s EXCEPT !.stats.malloced = 0, !.stats.freed = 0, !.stats.collisions = 0,
                   !.M = hash_size_from_nr_faces(s.stats.number_of_facets),
                   !.neighbors_start = [i \in DOMAIN s.neighbors_start |->
                        IF i < s.stats.number_of_facets
                        THEN [s.neighbors_start[i] EXCEPT !.neighbor = [j \in 0..2 |-> -1]]
                        ELSE s.neighbors_start[i]],
                   !.heads = NoHeads, !.table = TRUE]

RECURSIVE SumLen(_, _)
SumLen(heads, B) ==
    IF B = {} THEN 0
    ELSE LET b == CHOOSE x \in B : TRUE IN Len(heads[b]) + SumLen(heads, B \ {b})

stl_free_edges(s) ==
    IF s.error THEN s
    ELSE [s EXCEPT !.stats.freed =
                        IF s.stats.malloced # s.stats.freed
                        THEN s.stats.freed + SumLen(s.heads, DOMAIN s.heads)
                        ELSE s.stats.freed,
                   !.heads = NoHeads, !.table = FALSE]

\* "Count successful connects" of stl_record_neighbors: s is the structure after the
\* assignments to the neighbour table
record_neighbors_count(s, fa, fb) ==
    LET i  == Unconnected(s.neighbors_start[fa])
        j  == Unconnected(s.neighbors_start[fb])
        c1 == (IF i = 2 THEN 1 ELSE 0) + (IF j = 2 THEN 1 ELSE 0)
        c2 == (IF i = 1 THEN 1 ELSE 0) + (IF j = 1 THEN 1 ELSE 0)
        c3 == (IF i # 2 /\ i # 1 THEN 1 ELSE 0) + (IF j # 2 /\ j # 1 THEN 1 ELSE 0)
    IN  [s EXCEPT !.stats.connected_edges = @ + 2,
                  !.stats.connected_facets_1_edge = @ + c1,
                  !.stats.connected_facets_2_edge = @ + c2,
                  !.stats.connected_facets_3_edge = @ + c3]

\* a recording that never marks the direction
record_neighbors_orient_never(s, f, slot, same) == s

\* which_vertex_not[slot] of facet f += 3 when the two edges run in the same direction
record_neighbors_orient(s, f, slot, same) ==
    IF same THEN [s EXCEPT !.neighbors_start[f].which_vertex_not[slot] = @ + 3] ELSE s

\* facet f's neighbour across slot is facet g, whose edge is other_edge
record_neighbors_set(s, f, slot, g, other_edge) ==
    [[s EXCEPT !.neighbors_start[f].neighbor[slot] = g]
        EXCEPT !.neighbors_start[f].which_vertex_not[slot] = (other_edge + 2) % 3]

stl_record_neighbors(s, edge_a, edge_b) ==
    IF s.error THEN s
    ELSE
    LET fa == edge_a.facet_number
        fb == edge_b.facet_number
        ea == edge_a.which_edge
        eb == edge_b.which_edge
        same == (ea < 3 /\ eb < 3) \/ (ea > 2 /\ eb > 2)
    IN  \* the assignments in the order of the code: a, b, then the two += 3
        record_neighbors_count(
            record_neighbors_orient(
                record_neighbors_orient(
                    record_neighbors_set(record_neighbors_set(s, fa, ea % 3, fb, eb),
                                         fb, eb % 3, fa, ea),
                    fa, ea % 3, same),
                fb, eb % 3, same),
            fa, fb)

-----------------------------------------------------------------------------
(* Vertex snapping of the nearby pass.                                     *)

\* a walk that has made more steps than there are walk states
\* (facet, which_vertex_not, direction) repeats one of them: it never ends
WalkFuel(s) == 12 * Cardinality(DOMAIN s.neighbors_start) + 2

InArray(s, f) == f \in DOMAIN s.neighbors_start

\* a walk that does not move on to the neighbour: it ends only when the first slot it
\* looks at holds -1
change_vertices_walk_on(s, facet_num, vnot, direction, first_facet, new_vertex, fuel, start) ==
    LET pivot_vertex == IF vnot > 2 THEN (vnot + 2) % 3 ELSE (vnot + 1) % 3
        next_edge    == IF vnot > 2 THEN pivot_vertex ELSE vnot
    IN  IF s.neighbors_start[facet_num].neighbor[next_edge] = -1
        THEN [s EXCEPT !.facet_start[facet_num].vertex[pivot_vertex] = new_vertex]
        ELSE [s EXCEPT !.hung = TRUE]

\* the loop of stl_change_vertices, one iteration per call; start is the facet array
\* as it was when the walk began
RECURSIVE change_vertices_walk(_, _, _, _, _, _, _, _)
change_vertices_walk(s, facet_num, vnot, direction, first_facet, new_vertex, fuel, start) ==
    IF fuel = 0 THEN [s EXCEPT !.hung = TRUE]
    ELSE IF ~InArray(s, facet_num) THEN [s EXCEPT !.oob = TRUE]
    ELSE
    LET pivot_vertex == IF vnot > 2
                        THEN (IF direction = 0 THEN (vnot + 2) % 3 ELSE (vnot + 1) % 3)
                        ELSE (IF direction = 0 THEN (vnot + 1) % 3 ELSE (vnot + 2) % 3)
        next_edge    == IF vnot > 2
                        THEN (IF direction = 0 THEN pivot_vertex ELSE vnot % 3)
                        ELSE (IF direction = 0 THEN vnot ELSE pivot_vertex)
        dir2         == IF vnot > 2 THEN (IF direction = 0 THEN 1 ELSE 0) ELSE direction
        vnot2 == s.neighbors_start[facet_num].which_vertex_not[next_edge]
        next  == s.neighbors_start[facet_num].neighbor[next_edge]
        steps == WalkFuel(s) - fuel + 1
    IN  IF next = -1
        THEN [s EXCEPT !.facet_start[facet_num].vertex[pivot_vertex] = new_vertex,
                       !.steps = Max2(@, steps)]
        ELSE IF next = first_facet
        THEN [s EXCEPT !.facet_start[facet_num].vertex[pivot_vertex] = new_vertex,
                       !.steps = Max2(@, steps),
                       !.printed = @ \cup {"mobius_change"},
                       !.mobius_edit = @ \/ ([s.facet_start EXCEPT ![facet_num].vertex[pivot_vertex]
                                                                      = new_vertex] # start)]
        ELSE change_vertices_walk(
                 [s EXCEPT !.facet_start[facet_num].vertex[pivot_vertex] = new_vertex],
                 next, vnot2, dir2, first_facet, new_vertex, fuel - 1, start)

stl_change_vertices(s, facet_num, vnot, new_vertex) ==
    IF s.error THEN s
    ELSE change_vertices_walk(s, facet_num, vnot, 0, facet_num, new_vertex, WalkFuel(s),
                              s.facet_start)

\* the result also carries v1a, v1b, v2a, v2b, the corners of the two pairs
stl_which_vertices_to_change(s, edge_a, edge_b) ==
    LET fa  == edge_a.facet_number
        fb  == edge_b.facet_number
        v1a == IF edge_a.which_edge < 3 THEN edge_a.which_edge ELSE (edge_a.which_edge + 1) % 3
        v2a == IF edge_a.which_edge < 3 THEN (edge_a.which_edge + 1) % 3 ELSE edge_a.which_edge % 3
        v1b == IF edge_b.which_edge < 3 THEN edge_b.which_edge ELSE (edge_b.which_edge + 1) % 3
        v2b == IF edge_b.which_edge < 3 THEN (edge_b.which_edge + 1) % 3 ELSE edge_b.which_edge % 3
        va(v) == s.facet_start[fa].vertex[v]
        vb(v) == s.facet_start[fb].vertex[v]
        free_a(v) == s.neighbors_start[fa].neighbor[v] = -1
                     /\ s.neighbors_start[fa].neighbor[(v + 2) % 3] = -1
    IN  [facet1      |-> IF VertexEq(va(v1a), vb(v1b)) THEN -1
                         ELSE IF free_a(v1a) THEN fa ELSE fb,
         vertex1     |-> IF free_a(v1a) THEN v1a ELSE v1b,
         new_vertex1 |-> IF free_a(v1a) THEN vb(v1b) ELSE va(v1a),
         facet2      |-> IF VertexEq(va(v2a), vb(v2b)) THEN -1
                         ELSE IF free_a(v2a) THEN fa ELSE fb,
         vertex2     |-> IF free_a(v2a) THEN v2a ELSE v2b,
         new_vertex2 |-> IF free_a(v2a) THEN vb(v2b) ELSE va(v2a),
         v1a |-> v1a, v1b |-> v1b, v2a |-> v2a, v2b |-> v2b]

\* the vnot1 / vnot2 stl_match_neighbors_nearby passes to stl_change_vertices
match_vnot(edge_a, edge_b, facet, vertex) ==
    LET v0 == IF facet = edge_a.facet_number THEN (edge_a.which_edge + 2) % 3
                                             ELSE (edge_b.which_edge + 2) % 3
    IN  IF (v0 + 2) % 3 = vertex THEN v0 + 3 ELSE v0

\* a match that leaves the first pair of vertices as it is
match_change_skip(s, edge_a, edge_b, w) == s

\* if (facet1 != -1) ... stl_change_vertices(stl, facet1, vnot1, new_vertex1)
match_change_1(s, edge_a, edge_b, w) ==
    IF w.facet1 # -1
    THEN stl_change_vertices(s, w.facet1, match_vnot(edge_a, edge_b, w.facet1, w.vertex1),
                             w.new_vertex1)
    ELSE s

\* if (facet2 != -1) ... stl_change_vertices(stl, facet2, vnot2, new_vertex2)
match_change_2(s, edge_a, edge_b, w) ==
    IF w.facet2 # -1 /\ ~s.hung
    THEN stl_change_vertices(s, w.facet2, match_vnot(edge_a, edge_b, w.facet2, w.vertex2),
                             w.new_vertex2)
    ELSE s

\* the edge of facet f at its corner v other than the edge just matched: connected or not
CornerFree(s, f, v, matched_edge) ==
    LET other == IF v = matched_edge % 3 THEN (v + 2) % 3 ELSE v
    IN  s.neighbors_start[f].neighbor[other] = -1

\* what is noted of one choice of stl_which_vertices_to_change: s is the structure the
\* choice was made on
SnapNote(s, edge_a, edge_b, facet, va, vb) ==
    IF facet = -1 THEN {}
    ELSE {[moved_a |-> facet = edge_a.facet_number,
           free_a  |-> CornerFree(s, edge_a.facet_number, va, edge_a.which_edge),
           free_b  |-> CornerFree(s, edge_b.facet_number, vb, edge_b.which_edge)]}

\* mutant of match_fixed: a match that moved no vertex is not counted
match_fixed_moved(s, s0, edge_a, edge_b, w) ==
    IF s.hung \/ (w.facet1 = -1 /\ w.facet2 = -1) THEN s
    ELSE [s EXCEPT !.stats.edges_fixed = @ + 2,
                   !.snaps = @ \cup SnapNote(s0, edge_a, edge_b, w.facet1, w.v1a, w.v1b)
                               \cup SnapNote(s0, edge_a, edge_b, w.facet2, w.v2a, w.v2b)]

\* stl->stats.edges_fixed += 2; s0 is the structure the vertices to change were chosen
\* on; snap_bad and snaps note what the two facets look like when the function returns
match_fixed(s, s0, edge_a, edge_b, w) ==
    IF s.hung THEN s
    ELSE LET fa == s.facet_start[edge_a.facet_number]
             fb == s.facet_start[edge_b.facet_number]
         IN  [s EXCEPT !.stats.edges_fixed = @ + 2,
                       !.snap_bad = @ \/ ~(VertexEq(fa.vertex[w.v1a], fb.vertex[w.v1b])
                                            /\ VertexEq(fa.vertex[w.v2a], fb.vertex[w.v2b])),
                       !.snaps = @ \cup SnapNote(s0, edge_a, edge_b, w.facet1, w.v1a, w.v1b)
                                   \cup SnapNote(s0, edge_a, edge_b, w.facet2, w.v2a, w.v2b)]

\* stl_match_neighbors_nearby after its call of stl_record_neighbors
match_changes(s, edge_a, edge_b, w) ==
    match_fixed(match_change_2(match_change_1(s, edge_a, edge_b, w), edge_a, edge_b, w),
                s, edge_a, edge_b, w)

stl_match_neighbors_nearby_from(s, edge_a, edge_b) ==
    match_changes(s, edge_a, edge_b, stl_which_vertices_to_change(s, edge_a, edge_b))

stl_match_neighbors_nearby(s, edge_a, edge_b) ==
    IF s.error THEN s
    ELSE stl_match_neighbors_nearby_from(stl_record_neighbors(s, edge_a, edge_b), edge_a, edge_b)

-----------------------------------------------------------------------------
(* Insertion of an edge into the hash table.  match_neighbors, a function  *)
(* pointer in the code, is "record" for stl_record_neighbors and "nearby"  *)
(* for stl_match_neighbors_nearby.                                         *)

match_call(s, match_neighbors, edge_a, edge_b) ==
    IF match_neighbors = "record" THEN stl_record_neighbors(s, edge_a, edge_b)
    ELSE stl_match_neighbors_nearby(s, edge_a, edge_b)

\* mutant of insert_hash_walk: the chain is not searched beyond its head, the edge is
\* put at its end
insert_hash_walk_append(s, edge, match_neighbors, c, link) ==
    [SetChain(s, c, Append(Chain(s, c), edge))
        EXCEPT !.stats.malloced = @ + 1, !.stats.collisions = @ + 1]

\* the for(;;) of insert_hash_edge; link is the position in the chain of the record
\* the code calls link
RECURSIVE insert_hash_walk(_, _, _, _, _)
insert_hash_walk(s, edge, match_neighbors, c, link) ==
    LET chain == Chain(s, c)
    IN  IF link = Len(chain)
        THEN \* link->next == tail: insert a new edge
             [SetChain(s, c, Append(chain, edge))
                 EXCEPT !.stats.malloced = @ + 1, !.stats.collisions = @ + 1]
        ELSE IF ~stl_compare_function(edge, chain[link + 1])
        THEN [SetChain(match_call(s, match_neighbors, edge, chain[link + 1]),
                       c, RemoveAt(chain, link + 1)) EXCEPT !.stats.freed = @ + 1]
        ELSE insert_hash_walk([s EXCEPT !.stats.collisions = @ + 1],
                              edge, match_neighbors, c, link + 1)

\* two records of chain c carry the same key and belong to two facets
MixedChain(s, c) ==
    \E p, q \in DOMAIN Chain(s, c) :
        /\ ~KeyNe(Chain(s, c)[p], Chain(s, c)[q])
        /\ Chain(s, c)[p].facet_number # Chain(s, c)[q].facet_number

\* mutant of insert_hash_edge_body: a record matched at the head of its chain is left
\* in the table
insert_hash_edge_body_keep(s, edge, match_neighbors, c) ==
    LET chain == Chain(s, c)
    IN  IF chain = << >>
        THEN [SetChain(s, c, <<edge>>) EXCEPT !.stats.malloced = @ + 1]
        ELSE IF ~stl_compare_function(edge, chain[1])
        THEN [match_call(s, match_neighbors, edge, chain[1]) EXCEPT !.stats.freed = @ + 1]
        ELSE insert_hash_walk(s, edge, match_neighbors, c, 1)

\* insert_hash_edge up to its return
insert_hash_edge_body(s, edge, match_neighbors, c) ==
    LET chain == Chain(s, c)
    IN  IF chain = << >>
        THEN [SetChain(s, c, <<edge>>) EXCEPT !.stats.malloced = @ + 1]
        ELSE IF ~stl_compare_function(edge, chain[1])
        THEN [SetChain(match_call(s, match_neighbors, edge, chain[1]), c, Tail(chain))
                 EXCEPT !.stats.freed = @ + 1]
        ELSE insert_hash_walk(s, edge, match_neighbors, c, 1)

\* mixed notes whether the chain of the edge held, when the function returned, two
\* records of equal key and different facets
insert_hash_edge(s, edge, match_neighbors) ==
    IF s.error \/ s.hung THEN s
    ELSE
    LET c == hash(edge, s.M)
        r == insert_hash_edge_body(s, edge, match_neighbors, c)
    IN  [r EXCEPT !.mixed = @ \/ MixedChain(r, c)]

-----------------------------------------------------------------------------
(* Removal of facets.  ub is what a read of neighbors_start[-1], memory    *)
(* before the array, yields as the number of its "unconnected" slots.      *)

stl_update_connects_remove_1(s, facet_num, ub) ==
    IF s.error THEN s
    ELSE
    LET inside == InArray(s, facet_num)
        j  == IF inside THEN Unconnected(s.neighbors_start[facet_num]) ELSE ub
        s1 == IF inside THEN s ELSE [s EXCEPT !.oob = TRUE]
    IN  IF j = 0 THEN [s1 EXCEPT !.stats.connected_facets_3_edge = @ - 1]
        ELSE IF j = 1 THEN [s1 EXCEPT !.stats.connected_facets_2_edge = @ - 1]
        ELSE IF j = 2 THEN [s1 EXCEPT !.stats.connected_facets_1_edge = @ - 1]
        ELSE s1

\* mutant of remove_facet_relink: the neighbours of the facet moved keep its old index
remove_facet_relink_none(s, facet_number, neighbor, vnot, i) == s

\* the second loop of stl_remove_facet, over the slots i of the facet moved
RECURSIVE remove_facet_relink(_, _, _, _, _)
remove_facet_relink(s, facet_number, neighbor, vnot, i) ==
    IF i > 2 THEN s
    ELSE IF neighbor[i] = -1 THEN remove_facet_relink(s, facet_number, neighbor, vnot, i + 1)
    ELSE IF ~InArray(s, neighbor[i]) THEN [s EXCEPT !.oob = TRUE]
    ELSE IF s.neighbors_start[neighbor[i]].neighbor[(vnot[i] + 1) % 3]
                # s.stats.number_of_facets
    THEN [s EXCEPT !.printed = @ \cup {"this is wrong"}]
    ELSE remove_facet_relink(
             [s EXCEPT !.neighbors_start[neighbor[i]].neighbor[(vnot[i] + 1) % 3] = facet_number],
             facet_number, neighbor, vnot, i + 1)

stl_remove_facet(s, facet_number) ==
    IF s.error THEN s
    ELSE
    LET j  == Unconnected(s.neighbors_start[facet_number])
        n  == s.stats.number_of_facets
        s1 == [s EXCEPT !.stats.facets_removed = @ + 1,
                        !.stats.connected_facets_1_edge = IF j \in {0, 1, 2} THEN @ - 1 ELSE @,
                        !.stats.connected_facets_2_edge = IF j \in {0, 1} THEN @ - 1 ELSE @,
                        !.stats.connected_facets_3_edge = IF j = 0 THEN @ - 1 ELSE @]
        s2 == [s1 EXCEPT !.facet_start[facet_number] = s1.facet_start[n - 1],
                         !.neighbors_start[facet_number] = s1.neighbors_start[n - 1],
                         !.stats.number_of_facets = n - 1]
    IN  remove_facet_relink(s2, facet_number,
                            s2.neighbors_start[facet_number].neighbor,
                            s2.neighbors_start[facet_number].which_vertex_not, 0)

IsDegenerate(facet) ==
    \/ VertexEq(facet.vertex[0], facet.vertex[1])
    \/ VertexEq(facet.vertex[1], facet.vertex[2])
    \/ VertexEq(facet.vertex[0], facet.vertex[2])

\* if (neighbor == -1) stl_update_connects_remove_1(stl, other)
remove_degenerate_update(s, neighbor, other, ub) ==
    IF neighbor = -1 THEN stl_update_connects_remove_1(s, other, ub) ELSE s

\* the end of stl_remove_degenerate, after stl_remove_facet: neighbor3 loses its neighbour
remove_degenerate_unlink(s, neighbor3, vnot3) ==
    IF neighbor3 >= 0 /\ InArray(s, neighbor3)
    THEN [s EXCEPT !.neighbors_start[neighbor3].neighbor[(vnot3 + 1) % 3] = -1,
                   !.stale = @ \/ (neighbor3 >= s.stats.number_of_facets)]
    ELSE s

\* if (neighbor3 >= 0) { stl_update_connects_remove_1(stl, neighbor3); ... = -1; }
remove_degenerate_end(s, neighbor3, vnot3, ub) ==
    remove_degenerate_unlink(
        IF neighbor3 >= 0 THEN stl_update_connects_remove_1(s, neighbor3, ub) ELSE s,
        neighbor3, vnot3)

\* stl_remove_degenerate from the reading of neighbor3 on: neighbor1 and neighbor2 are
\* made neighbours of each other, the facet is removed
remove_degenerate_join(s, facet, edge1, edge2, edge3, ub) ==
    LET neighbor1 == s.neighbors_start[facet].neighbor[edge1]
        neighbor2 == s.neighbors_start[facet].neighbor[edge2]
        neighbor3 == s.neighbors_start[facet].neighbor[edge3]
        vnot1 == s.neighbors_start[facet].which_vertex_not[edge1]
        vnot2 == s.neighbors_start[facet].which_vertex_not[edge2]
        vnot3 == s.neighbors_start[facet].which_vertex_not[edge3]
        s3 == IF neighbor1 >= 0
              THEN IF InArray(s, neighbor1)
                   THEN [s EXCEPT !.neighbors_start[neighbor1].neighbor[(vnot1 + 1) % 3] = neighbor2,
                                  !.neighbors_start[neighbor1].which_vertex_not[(vnot1 + 1) % 3] = vnot2]
                   ELSE [s EXCEPT !.oob = TRUE]
              ELSE s
        s4 == IF neighbor2 >= 0
              THEN IF InArray(s3, neighbor2)
                   THEN [s3 EXCEPT !.neighbors_start[neighbor2].neighbor[(vnot2 + 1) % 3] = neighbor1,
                                   !.neighbors_start[neighbor2].which_vertex_not[(vnot2 + 1) % 3] = vnot1]
                   ELSE [s3 EXCEPT !.oob = TRUE]
              ELSE s3
    IN  remove_degenerate_end(stl_remove_facet(s4, facet), neighbor3, vnot3, ub)

stl_remove_degenerate(s, facet, ub) ==
    IF s.error THEN s
    ELSE
    LET v(k) == s.facet_start[facet].vertex[k]
    IN
    IF VertexEq(v(0), v(1)) /\ VertexEq(v(1), v(2))
    THEN stl_remove_facet([s EXCEPT !.printed = @ \cup {"removing a facet"}], facet)
    ELSE IF ~IsDegenerate(s.facet_start[facet]) THEN s
    ELSE
    LET edge1 == IF VertexEq(v(0), v(1)) THEN 1 ELSE 0
        edge2 == IF VertexEq(v(0), v(1)) THEN 2 ELSE IF VertexEq(v(1), v(2)) THEN 2 ELSE 1
        edge3 == IF VertexEq(v(0), v(1)) THEN 0 ELSE IF VertexEq(v(1), v(2)) THEN 1 ELSE 2
        neighbor1 == s.neighbors_start[facet].neighbor[edge1]
        neighbor2 == s.neighbors_start[facet].neighbor[edge2]
    IN  remove_degenerate_join(
            remove_degenerate_update(remove_degenerate_update(s, neighbor1, neighbor2, ub),
                                     neighbor2, neighbor1, ub),
            facet, edge1, edge2, edge3, ub)

\* first loop of stl_remove_unconnected_facets: remove degenerate facets
RECURSIVE remove_degenerate_loop(_, _, _)
remove_degenerate_loop(s, i, ub) ==
    IF ~(i < s.stats.number_of_facets) THEN s
    ELSE IF IsDegenerate(s.facet_start[i])
         THEN remove_degenerate_loop(stl_remove_degenerate(s, i, ub), i, ub)
         ELSE remove_degenerate_loop(s, i + 1, ub)

\* second loop of stl_remove_unconnected_facets: remove completely unconnected facets
RECURSIVE remove_unconnected_loop(_, _)
remove_unconnected_loop(s, i) ==
    IF ~(i < s.stats.number_of_facets) THEN s
    ELSE IF Unconnected(s.neighbors_start[i]) = 3
         THEN remove_unconnected_loop(stl_remove_facet(s, i), i)
         ELSE remove_unconnected_loop(s, i + 1)

\* if (stl->stats.connected_facets_1_edge < stl->stats.number_of_facets) the second loop
remove_unconnected_part(s) ==
    IF s.stats.connected_facets_1_edge < s.stats.number_of_facets
    THEN remove_unconnected_loop(s, 0)
    ELSE s

stl_remove_unconnected_facets(s, ub) ==
    IF s.error THEN s
    ELSE remove_unconnected_part(remove_degenerate_loop(s, 0, ub))

-----------------------------------------------------------------------------
(* Loading of edges.                                                       *)

MaxDiff(a, b) ==
    Max2(Abs(FloatVal(a[1]) - FloatVal(b[1])),
         Max2(Abs(FloatVal(a[2]) - FloatVal(b[2])), Abs(FloatVal(a[3]) - FloatVal(b[3]))))

\* the edge after the two memcpy of stl_load_edge_exact: the vertices in the order of
\* stl_vertex_lower, which_edge raised by 3 when they were swapped
load_edge_memcpy(edge, a, b) ==
    IF stl_vertex_lower(a, b)
    THEN [edge EXCEPT !.key = KeyOf(a, b)]
    ELSE [edge EXCEPT !.key = KeyOf(b, a), !.which_edge = @ + 3]

\* returns the structure (shortest_edge is updated) and the edge loaded
stl_load_edge_exact(s, edge, a, b) ==
    IF s.error THEN [stl |-> s, edge |-> edge]
    ELSE [stl  |-> [s EXCEPT !.stats.shortest_edge = Min2(MaxDiff(a, b), @)],
          edge |-> [load_edge_memcpy(edge, a, b) EXCEPT !.key = NormalizeKey(@)]]

\* (x / tolerance).cast<int32_t>(): the quotient truncated towards zero
TruncDiv(x, t) == IF x >= 0 THEN x \div t ELSE 0 - ((0 - x) \div t)

\* memory image of an int32_t, little endian, two's complement
Int32Bytes(n) == <<n % 256, (n \div 256) % 256, (n \div 65536) % 256, (n \div 16777216) % 256>>

CellOf(s, a, tolerance) ==
    [c \in 1..3 |-> TruncDiv(FloatVal(a[c]) - s.stats.min[c], tolerance)]

CellLower(v1, v2) ==
    IF v1[1] # v2[1] THEN v1[1] < v2[1]
    ELSE IF v1[2] # v2[2] THEN v1[2] < v2[2]
    ELSE v1[3] < v2[3]

CellKey(v1, v2) == [w \in 0..5 |-> IF w < 3 THEN Int32Bytes(v1[w + 1]) ELSE Int32Bytes(v2[w - 2])]

\* returns ok = FALSE (0) when both vertices fall into one grid cell
stl_load_edge_nearby(s, edge, a, b, tolerance) ==
    LET vertex1 == CellOf(s, a, tolerance)
        vertex2 == CellOf(s, b, tolerance)
    IN  IF vertex1 = vertex2 THEN [ok |-> FALSE, edge |-> edge]
        ELSE IF CellLower(vertex1, vertex2)
        THEN [ok |-> TRUE, edge |-> [edge EXCEPT !.key = CellKey(vertex1, vertex2)]]
        ELSE [ok |-> TRUE, edge |-> [edge EXCEPT !.key = CellKey(vertex2, vertex1),
                                                 !.which_edge = @ + 3]]

\* an edge record whose key is not loaded yet
NewEdge(i, j) == [key |-> << >>, facet_number |-> i, which_edge |-> j]

-----------------------------------------------------------------------------
(* stl_check_facets_exact                                                  *)

\* mutant of exact_degenerate_loop: the scan advances after a removal, so the facet
\* swapped in from the end is not examined
RECURSIVE exact_degenerate_loop_skip(_, _)
exact_degenerate_loop_skip(s, i) ==
    IF ~(i < s.stats.number_of_facets) THEN s
    ELSE IF IsDegenerate(s.facet_start[i])
    THEN exact_degenerate_loop_skip(
             [s EXCEPT !.facet_start[i] = s.facet_start[s.stats.number_of_facets - 1],
                       !.stats.number_of_facets = @ - 1,
                       !.stats.facets_removed = @ + 1,
                       !.stats.degenerate_facets = @ + 1], i + 1)
    ELSE exact_degenerate_loop_skip(s, i + 1)

\* mutant of exact_degenerate_loop: a removal is counted as a removed facet only
RECURSIVE exact_degenerate_loop_nocount(_, _)
exact_degenerate_loop_nocount(s, i) ==
    IF ~(i < s.stats.number_of_facets) THEN s
    ELSE IF IsDegenerate(s.facet_start[i])
    THEN exact_degenerate_loop_nocount(
             [s EXCEPT !.facet_start[i] = s.facet_start[s.stats.number_of_facets - 1],
                       !.stats.number_of_facets = @ - 1,
                       !.stats.facets_removed = @ + 1], i)
    ELSE exact_degenerate_loop_nocount(s, i + 1)

\* mutant of exact_degenerate_loop: the facet moved into the place of a removed one
\* loses its normal
RECURSIVE exact_degenerate_loop_zero(_, _)
exact_degenerate_loop_zero(s, i) ==
    IF ~(i < s.stats.number_of_facets) THEN s
    ELSE IF IsDegenerate(s.facet_start[i])
    THEN exact_degenerate_loop_zero(
             [s EXCEPT !.facet_start[i] =
                           [s.facet_start[s.stats.number_of_facets - 1]
                               EXCEPT !.normal = <<<<0, 0>>, <<0, 0>>, <<0, 0>>>>],
                       !.stats.number_of_facets = @ - 1,
                       !.stats.facets_removed = @ + 1,
                       !.stats.degenerate_facets = @ + 1], i)
    ELSE exact_degenerate_loop_zero(s, i + 1)

\* the loop that removes the degenerate facets
RECURSIVE exact_degenerate_loop(_, _)
exact_degenerate_loop(s, i) ==
    IF ~(i < s.stats.number_of_facets) THEN s
    ELSE IF IsDegenerate(s.facet_start[i])
    THEN exact_degenerate_loop(
             [s EXCEPT !.facet_start[i] = s.facet_start[s.stats.number_of_facets - 1],
                       !.stats.number_of_facets = @ - 1,
                       !.stats.facets_removed = @ + 1,
                       !.stats.degenerate_facets = @ + 1], i)
    ELSE exact_degenerate_loop(s, i + 1)

\* the loop that connects the neighbour edges, at facet i, edge j
RECURSIVE exact_connect_loop(_, _, _)
exact_connect_loop(s, i, j) ==
    IF ~(i < s.stats.number_of_facets) THEN s
    ELSE IF j > 2 THEN exact_connect_loop(s, i + 1, 0)
    ELSE LET facet == s.facet_start[i]
             l == stl_load_edge_exact(s, NewEdge(i, j), facet.vertex[j], facet.vertex[(j + 1) % 3])
         IN  exact_connect_loop(insert_hash_edge(l.stl, l.edge, "record"), i, j + 1)

\* mutant of stl_check_facets_exact: the connected_* counters are not reset
stl_check_facets_exact_noreset(s) ==
    IF s.error THEN s
    ELSE
    stl_free_edges(
        exact_connect_loop(
            stl_initialize_facet_check_exact(exact_degenerate_loop(s, 0)), 0, 0))

stl_check_facets_exact(s) ==
    IF s.error THEN s
    ELSE
    stl_free_edges(
        exact_connect_loop(
            stl_initialize_facet_check_exact(
                exact_degenerate_loop(
                    [s EXCEPT !.stats.connected_edges = 0,
                              !.stats.connected_facets_1_edge = 0,
                              !.stats.connected_facets_2_edge = 0,
                              !.stats.connected_facets_3_edge = 0], 0)), 0, 0))

-----------------------------------------------------------------------------
(* stl_check_facets_nearby                                                 *)

\* the loop over the facets i and their edges j; facet is the copy of facet i taken
\* when the loop reached i
RECURSIVE nearby_loop(_, _, _, _, _)
nearby_loop(s, i, j, facet, tolerance) ==
    IF s.hung \/ ~(i < s.stats.number_of_facets) THEN s
    ELSE IF j > 2
    THEN IF i + 1 < s.stats.number_of_facets
         THEN nearby_loop(s, i + 1, 0, s.facet_start[i + 1], tolerance)
         ELSE s
    ELSE IF s.neighbors_start[i].neighbor[j] = -1
    THEN LET l == stl_load_edge_nearby(s, NewEdge(i, j), facet.vertex[j],
                                       facet.vertex[(j + 1) % 3], tolerance)
         IN  IF l.ok THEN nearby_loop(insert_hash_edge(s, l.edge, "nearby"),
                                      i, j + 1, facet, tolerance)
             ELSE nearby_loop(s, i, j + 1, facet, tolerance)
    ELSE nearby_loop(s, i, j + 1, facet, tolerance)

\* the two nested for loops of stl_check_facets_nearby
nearby_loops(s, tolerance) ==
    IF s.stats.number_of_facets > 0
    THEN nearby_loop(s, 0, 0, s.facet_start[0], tolerance)
    ELSE s

\* stl_free_edges at the end of stl_check_facets_nearby, reached when the loops end
nearby_free(s) == IF s.hung THEN s ELSE stl_free_edges(s)

stl_check_facets_nearby(s, tolerance) ==
    IF s.error THEN s
    ELSE IF s.stats.connected_facets_1_edge = s.stats.number_of_facets
            /\ s.stats.connected_facets_2_edge = s.stats.number_of_facets
            /\ s.stats.connected_facets_3_edge = s.stats.number_of_facets
    THEN s
    ELSE
    nearby_free(nearby_loops(stl_initialize_facet_check_nearby(s), tolerance))

-----------------------------------------------------------------------------
(* stl_fill_holes and stl_add_facet                                        *)

\* growth of the facet arrays
FacetBlock == 256

\* stl_normal::Zero()
ZeroNormal == <<<<0, 0>>, <<0, 0>>, <<0, 0>>>>

stl_add_facet(s, new_facet) ==
    IF s.error THEN s
    ELSE
    LET n   == s.stats.number_of_facets
        grow == s.stats.facets_malloced < n + 1
        \* a slot never used before: its which_vertex_not is whatever realloc returned,
        \* and is not read before stl_record_neighbors sets it
        old == IF n \in DOMAIN s.neighbors_start THEN s.neighbors_start[n].which_vertex_not
               ELSE [k \in 0..2 |-> 0]
        dom == (DOMAIN s.facet_start) \cup {n}
    IN  [s EXCEPT !.stats.facets_added = @ + 1,
                  !.stats.facets_malloced = IF grow THEN @ + FacetBlock ELSE @,
                  !.facet_start = [i \in dom |->
                        IF i = n THEN [new_facet EXCEPT !.normal = ZeroNormal]
                        ELSE s.facet_start[i]],
                  !.neighbors_start = [i \in dom |->
                        IF i = n THEN [neighbor |-> [k \in 0..2 |-> -1], which_vertex_not |-> old]
                        ELSE s.neighbors_start[i]],
                  !.stats.number_of_facets = n + 1]

\* the first loop of stl_fill_holes: all unconnected edges go into the hash table
RECURSIVE fill_insert_loop(_, _, _)
fill_insert_loop(s, i, j) ==
    IF ~(i < s.stats.number_of_facets) THEN s
    ELSE IF j > 2 THEN fill_insert_loop(s, i + 1, 0)
    ELSE IF s.neighbors_start[i].neighbor[j] # -1 THEN fill_insert_loop(s, i, j + 1)
    ELSE LET facet == s.facet_start[i]
             l == stl_load_edge_exact(s, NewEdge(i, j), facet.vertex[j], facet.vertex[(j + 1) % 3])
         IN  fill_insert_loop(insert_hash_edge(l.stl, l.edge, "record"), i, j + 1)

\* mutant of fill_walk: the walk stops at the facet it starts from
fill_walk_first(s, facet_num, vnot, direction, first_facet, fuel) ==
    [kind |-> "open", facet_num |-> facet_num, vnot |-> vnot]

\* the for(;;) of stl_fill_holes: walks around a vertex until an unconnected edge
\* ("open") or the first facet ("mobius") is met
RECURSIVE fill_walk(_, _, _, _, _, _)
fill_walk(s, facet_num, vnot, direction, first_facet, fuel) ==
    IF fuel = 0 THEN [kind |-> "hung", facet_num |-> facet_num, vnot |-> vnot]
    ELSE IF ~InArray(s, facet_num) THEN [kind |-> "oob", facet_num |-> facet_num, vnot |-> vnot]
    ELSE
    LET pivot_vertex == IF vnot > 2
                        THEN (IF direction = 0 THEN (vnot + 2) % 3 ELSE (vnot + 1) % 3)
                        ELSE (IF direction = 0 THEN (vnot + 1) % 3 ELSE (vnot + 2) % 3)
        next_edge    == IF vnot > 2
                        THEN (IF direction = 0 THEN pivot_vertex ELSE vnot % 3)
                        ELSE (IF direction = 0 THEN vnot ELSE pivot_vertex)
        dir2         == IF vnot > 2 THEN (IF direction = 0 THEN 1 ELSE 0) ELSE direction
        next_facet   == s.neighbors_start[facet_num].neighbor[next_edge]
    IN  IF next_facet = -1
        THEN [kind |-> "open", facet_num |-> facet_num, vnot |-> vnot]
        ELSE IF next_facet = first_facet
        THEN [kind |-> "mobius", facet_num |-> next_facet,
              vnot |-> s.neighbors_start[facet_num].which_vertex_not[next_edge]]
        ELSE fill_walk(s, next_facet, s.neighbors_start[facet_num].which_vertex_not[next_edge],
                       dir2, first_facet, fuel - 1)

\* mutant of fill_insert_new: the last edge of the facet just added is left out
RECURSIVE fill_insert_new_short(_, _, _)
fill_insert_new_short(s, new_facet, k) ==
    IF k > 1 THEN s
    ELSE LET l == stl_load_edge_exact(s, NewEdge(s.stats.number_of_facets - 1, k),
                                      new_facet.vertex[k], new_facet.vertex[(k + 1) % 3])
         IN  fill_insert_new_short(insert_hash_edge(l.stl, l.edge, "record"), new_facet, k + 1)

\* the three edges of the facet just added go into the hash table
RECURSIVE fill_insert_new(_, _, _)
fill_insert_new(s, new_facet, k) ==
    IF k > 2 THEN s
    ELSE LET l == stl_load_edge_exact(s, NewEdge(s.stats.number_of_facets - 1, k),
                                      new_facet.vertex[k], new_facet.vertex[(k + 1) % 3])
         IN  fill_insert_new(insert_hash_edge(l.stl, l.edge, "record"), new_facet, k + 1)

\* the second loop of stl_fill_holes, at facet i, edge j; facet and neighbors_initial are
\* the copies taken when the loop reached i, cap the number of facets the model lets one
\* call add
RECURSIVE fill_loop(_, _, _, _, _, _)
fill_loop(s, i, j, facet, neighbors_initial, cap) ==
    IF ~(i < s.stats.number_of_facets) THEN s
    ELSE IF j > 2
    THEN IF i + 1 < s.stats.number_of_facets
         THEN fill_loop(s, i + 1, 0, s.facet_start[i + 1], s.neighbors_start[i + 1].neighbor, cap)
         ELSE s
    ELSE IF s.neighbors_start[i].neighbor[j] # -1
    THEN fill_loop(s, i, j + 1, facet, neighbors_initial, cap)
    ELSE
    LET direction == IF neighbors_initial[(j + 2) % 3] = -1 THEN 1 ELSE 0
        w == fill_walk(s, i, (j + 2) % 3, direction, i, WalkFuel(s))
    IN  IF w.kind = "open"
        THEN IF cap = 0 THEN [s EXCEPT !.overrun = TRUE]
             ELSE
             LET new_facet == [facet EXCEPT !.vertex =
                                  [k \in 0..2 |-> IF k = 0 THEN facet.vertex[j]
                                                  ELSE IF k = 1 THEN facet.vertex[(j + 1) % 3]
                                                  ELSE s.facet_start[w.facet_num].vertex[w.vnot % 3]]]
             IN  fill_loop(fill_insert_new(stl_add_facet(s, new_facet), new_facet, 0),
                           i, j + 1, facet, neighbors_initial, cap - 1)
        ELSE IF w.kind = "mobius" THEN [s EXCEPT !.printed = @ \cup {"mobius_fill"}]
        ELSE IF w.kind = "hung" THEN [s EXCEPT !.hung = TRUE]
        ELSE [s EXCEPT !.oob = TRUE]

\* the second pair of nested for loops of stl_fill_holes
fill_loops(s) ==
    IF s.stats.number_of_facets > 0
    THEN fill_loop(s, 0, 0, s.facet_start[0], s.neighbors_start[0].neighbor,
                   3 * s.stats.number_of_facets + 1)
    ELSE s

stl_fill_holes(s) ==
    IF s.error THEN s
    ELSE
    fill_loops(fill_insert_loop(stl_initialize_facet_check_nearby(s), 0, 0))

-----------------------------------------------------------------------------
(* The meshes loaded.                                                      *)

Pz == <<0, 0>>      \* +0.0
Nz == <<1, 0>>      \* -0.0
F1 == <<0, 1>>      \*  1.0
F4 == <<0, 4>>      \*  4.0
F5 == <<0, 5>>      \*  5.0
M1 == <<1, 1>>      \* -1.0

PA  == <<Pz, Pz, Pz>>
PAn == <<Nz, Pz, Pz>>   \* PA with a negative zero
PA1 == <<F1, Pz, Pz>>   \* a point near PA
PB  == <<F4, Pz, Pz>>
PB1 == <<F5, Pz, Pz>>   \* a point near PB
PC  == <<Pz, F4, Pz>>
PD  == <<Pz, Pz, F4>>

Tri(a, b, c) == [vertex |-> [k \in 0..2 |-> IF k = 0 THEN a ELSE IF k = 1 THEN b ELSE c],
                 normal |-> <<Pz, Pz, F1>>, extra |-> <<0, 0>>]

\* the four faces of the tetrahedron PA PB PC PD, wound consistently
T1 == Tri(PA, PC, PB)
T2 == Tri(PA, PB, PD)
T3 == Tri(PA, PD, PC)
T4 == Tri(PB, PC, PD)

\* the facets a loaded mesh is made of
FacetPool ==
    << T1, T2,
       Tri(PAn, PB, PD),       \* face 2 with a negative zero
       Tri(PA1, PB, PD),       \* face 2 with a corner off by less than the tolerance
       Tri(PA, PA1, PD),       \* a sliver that collapses when PA1 is snapped to PA
       Tri(PA1, PA, PB),       \* the sliver on the other side of PA PA1
       Tri(PA, PB, PB),        \* a degenerate facet
       Tri(PAn, PA, PD) >>     \* degenerate: -0.0 = +0.0

\* the facets of the closed meshes
ClosedPool ==
    << T1, T2, T3, T4,
       Tri(PAn, PB, PD),       \* face 2 with a negative zero
       Tri(PB, PD, PC) >>      \* face 4 wound the other way

Tolerances == {1, 2}

RECURSIVE MinCoord(_, _, _)
MinCoord(facets, c, i) ==
    IF i >= Len(facets) THEN 2147483647
    ELSE Min2(Min2(FloatVal(facets[i + 1].vertex[0][c]),
                   Min2(FloatVal(facets[i + 1].vertex[1][c]), FloatVal(facets[i + 1].vertex[2][c]))),
              MinCoord(facets, c, i + 1))

\* the structure after a mesh of the facets fs (a sequence) has been loaded
Loaded(fs) ==
    LET n == Len(fs)
    IN  [facet_start     |-> [i \in 0..(n - 1) |-> fs[i + 1]],
         neighbors_start |-> [i \in 0..(n - 1) |->
                                 [neighbor |-> [k \in 0..2 |-> -1],
                                  which_vertex_not |-> [k \in 0..2 |-> 0]]],
         stats |-> [number_of_facets |-> n, facets_malloced |-> n,
                    connected_edges |-> 0, connected_facets_1_edge |-> 0,
                    connected_facets_2_edge |-> 0, connected_facets_3_edge |-> 0,
                    degenerate_facets |-> 0, facets_removed |-> 0, facets_added |-> 0,
                    edges_fixed |-> 0, malloced |-> 0, freed |-> 0, collisions |-> 0,
                    shortest_edge |-> 2147483647, header |-> << >>,
                    min |-> [c \in 1..3 |-> IF n = 0 THEN 0 ELSE MinCoord(fs, c, 0)]],
         error |-> FALSE, M |-> 0, heads |-> NoHeads, table |-> FALSE,
         printed |-> {}, oob |-> FALSE, stale |-> FALSE, hung |-> FALSE, overrun |-> FALSE,
         snap_bad |-> FALSE, snaps |-> {}, steps |-> 0, mobius_edit |-> FALSE,
         mixed |-> FALSE]

\* the meshes of at most MaxFacets facets of a pool
MeshesOf(pool) ==
    {[i \in 1..Len(m) |-> pool[m[i]]] : m \in UNION {[1..n -> 1..Len(pool)] : n \in 0..MaxFacets}}

\* edge j of facet f and edge l of facet g join the same two points
SameEdge(f, j, g, l) ==
    \/ VertexEq(f.vertex[j], g.vertex[l]) /\ VertexEq(f.vertex[(j + 1) % 3], g.vertex[(l + 1) % 3])
    \/ VertexEq(f.vertex[j], g.vertex[(l + 1) % 3]) /\ VertexEq(f.vertex[(j + 1) % 3], g.vertex[l])

\* a closed surface: no degenerate facet, every undirected edge used by exactly two facets
IsClosed(fs) ==
    /\ Len(fs) > 0
    /\ \A i \in 1..Len(fs) : ~IsDegenerate(fs[i])
    /\ \A i \in 1..Len(fs), j \in 0..2 :
          Cardinality({x \in (1..Len(fs)) \X (0..2) : SameEdge(fs[i], j, fs[x[1]], x[2])}) = 2

\* the numerical value of a point
Val(v) == <<FloatVal(v[1]), FloatVal(v[2]), FloatVal(v[3])>>

\* the number of facet edges that join the same two points as edge j of facet i
Uses(fs, i, j) ==
    Cardinality({x \in (1..Len(fs)) \X (0..2) : SameEdge(fs[i], j, fs[x[1]], x[2])})

\* the points on the edges that only one facet uses
BoundaryPoints(fs) ==
    UNION {{Val(fs[x[1]].vertex[x[2]]), Val(fs[x[1]].vertex[(x[2] + 1) % 3])} :
              x \in {y \in (1..Len(fs)) \X (0..2) : Uses(fs, y[1], y[2]) = 1}}

\* a closed surface with one facet taken out: a triangular hole bounded by three
\* unconnected edges
IsHole(fs) ==
    /\ Len(fs) > 0
    /\ \A i \in 1..Len(fs) : ~IsDegenerate(fs[i])
    /\ \A i \in 1..Len(fs), j \in 0..2 : Uses(fs, i, j) \in {1, 2}
    /\ Cardinality({y \in (1..Len(fs)) \X (0..2) : Uses(fs, y[1], y[2]) = 1}) = 3
    /\ Cardinality(BoundaryPoints(fs)) = 3

Without(fs, p) == [i \in 1..(Len(fs) - 1) |-> IF i < p THEN fs[i] ELSE fs[i + 1]]

ClosedMeshes == {fs \in MeshesOf(ClosedPool) : IsClosed(fs)}

\* the closed meshes with one facet taken out
HoleMeshes == {Without(fs, p) : <<fs, p>> \in {x \in ClosedMeshes \X (1..MaxFacets) : x[2] <= Len(x[1])}}

InitMesh(meshes) ==
    /\ fn_in \in meshes
    /\ stl = Loaded(fn_in)
    /\ hsel \in HashSel
    /\ phase = "loaded"
    /\ npass = 0
    /\ last = "load"
    /\ prev = stl
    /\ fn_out = 0 /\ fn_pc = "mesh"

Init == InitMesh(MeshesOf(FacetPool))

\* no degenerate facet, and every edge has a partner
IsClean(fs) ==
    /\ \A i \in 1..Len(fs) : ~IsDegenerate(fs[i])
    /\ \A i \in 1..Len(fs), j \in 0..2 : Uses(fs, i, j) = 2

\* the meshes a repair is run on
InitRepair ==
    InitMesh(ClosedMeshes \cup HoleMeshes \cup {fs \in MeshesOf(FacetPool) : Len(fs) < MaxFacets})

\* the closed meshes and the meshes with one hole
InitClosed == InitMesh(ClosedMeshes \cup HoleMeshes)

-----------------------------------------------------------------------------
(* The passes.  A pass runs to its end in one step; what it printed and    *)
(* the accesses it made outside the arrays are those of the last pass.     *)

Fresh(s) == [s EXCEPT !.printed = {}, !.oob = FALSE, !.stale = FALSE,
                      !.snap_bad = FALSE, !.snaps = {}, !.steps = 0, !.mobius_edit = FALSE,
                      !.mixed = FALSE]

Ran(name, s) ==
    /\ stl' = s
    /\ prev' = stl
    /\ last' = name
    /\ npass' = npass + 1
    /\ phase' = IF stl.error THEN phase
                 ELSE IF s.hung \/ s.overrun THEN "hung" ELSE "built"
    /\ UNCHANGED <<hsel, fn_in, fn_out, fn_pc>>

CheckFacetsExact ==
    /\ fn_pc = "mesh" /\ phase \in {"loaded", "built"} /\ npass < MaxPasses
    /\ Ran("exact", stl_check_facets_exact(Fresh(stl)))

\* the passes below work on the neighbours list stl_check_facets_exact has built
CheckFacetsNearby ==
    /\ fn_pc = "mesh" /\ phase = "built" /\ npass < MaxPasses
    /\ \E tolerance \in Tolerances :
          Ran("nearby", stl_check_facets_nearby(Fresh(stl), tolerance))

RemoveUnconnectedFacets ==
    /\ fn_pc = "mesh" /\ phase = "built" /\ npass < MaxPasses
    /\ \E ub \in 0..3 :
          Ran("remove", stl_remove_unconnected_facets(Fresh(stl), ub))

FillHoles ==
    /\ fn_pc = "mesh" /\ phase = "built" /\ npass < MaxPasses
    /\ Ran("fill", stl_fill_holes(Fresh(stl)))

\* the repair sequence: exact pass, nearby pass, removal of unconnected facets, hole filling
stl_repair(s, tolerance, ub) ==
    stl_fill_holes(
        stl_remove_unconnected_facets(
            stl_check_facets_nearby(stl_check_facets_exact(s), tolerance), ub))

Repair ==
    /\ fn_pc = "mesh" /\ phase \in {"loaded", "built"} /\ npass < MaxPasses
    /\ \E tolerance \in Tolerances, ub \in 0..3 :
          Ran("repair", stl_repair(Fresh(stl), tolerance, ub))

Next == CheckFacetsExact \/ CheckFacetsNearby \/ RemoveUnconnectedFacets \/ FillHoles

Spec == Init /\ [][Next]_vars

SpecClosed == InitClosed /\ [][Next]_vars

SpecRepair == InitRepair /\ [][Repair]_vars

\* facets around the short edge PA PA1, with the near points PB and PB1
SnapPool ==
    << Tri(PA, PC, PA1), Tri(PB1, PA1, PC), Tri(PB, PA, PA1), Tri(PD, PC, PA1) >>

InitSnap == InitMesh(MeshesOf(SnapPool))

SpecSnap == InitSnap /\ [][Next]_vars

-----------------------------------------------------------------------------
(* The size of the hash table, as a function of the number of facets.      *)

\* the facet counts tried: the small ones, those around the point where the size
\* changes, and INT_MAX
HashInputs ==
    (0..MaxSmallCount)
      \cup {primes[k] \div 6 + d : k \in 1..Len(primes), d \in {-1, 0, 1, 2}}
      \cup {2147483647}

InitHash ==
    /\ fn_pc = "in"
    /\ fn_in \in HashInputs
    /\ fn_out = 0
    /\ stl = Loaded(<< >>)
    /\ hsel = 1
    /\ phase = "loaded"
    /\ npass = 0
    /\ last = "load"
    /\ prev = stl

HashSize ==
    /\ fn_pc = "in"
    /\ fn_out' = hash_size_from_nr_faces(fn_in)
    /\ fn_pc' = "out"
    /\ UNCHANGED <<stl, phase, hsel, npass, last, prev, fn_in>>

SpecHash == InitHash /\ [][HashSize]_vars

-----------------------------------------------------------------------------
(* The keys of two edges, one of each of two facets.                       *)

PAnn == <<Nz, Pz, Nz>>
PBn  == <<F4, Nz, Pz>>
PDn  == <<Nz, Nz, F4>>
PM   == <<M1, Pz, Pz>>

\* triangles on the points PA PB PD (and PC), with zeros of either sign
KeyPool ==
    << T2, Tri(PAn, PB, PD), Tri(PAnn, PBn, PDn),
       Tri(PB, PAn, PD),        \* wound the other way
       Tri(PD, PAnn, PBn),      \* rotated
       Tri(PM, PB, PD),         \* -1.0 in place of the zero
       Tri(PA1, PB, PD),        \*  1.0 in place of the zero
       Tri(PA, PC, PBn) >>      \* shares the edge PA PB only

InitKey ==
    /\ fn_pc = "key"
    /\ fn_in \in {<<KeyPool[x[1]], KeyPool[x[2]]>> : x \in (1..Len(KeyPool)) \X (1..Len(KeyPool))}
    /\ fn_out = << >>
    /\ stl = Loaded(fn_in)
    /\ hsel \in HashSel
    /\ phase = "loaded"
    /\ npass = 0
    /\ last = "load"
    /\ prev = stl

\* stl_load_edge_exact on edge j of facet 0 and on edge l of facet 1; raw_a and raw_b
\* are the keys as they are before the negative zeros are removed
LoadEdgeExact ==
    /\ fn_pc = "key"
    /\ \E j \in 0..2, l \in 0..2 :
          LET f == stl.facet_start[0]
              g == stl.facet_start[1]
          IN  fn_out' = [j |-> j, l |-> l,
                         raw_a  |-> load_edge_memcpy(NewEdge(0, j), f.vertex[j], f.vertex[(j + 1) % 3]).key,
                         raw_b  |-> load_edge_memcpy(NewEdge(1, l), g.vertex[l], g.vertex[(l + 1) % 3]).key,
                         edge_a |-> stl_load_edge_exact(stl, NewEdge(0, j), f.vertex[j],
                                                        f.vertex[(j + 1) % 3]).edge,
                         edge_b |-> stl_load_edge_exact(stl, NewEdge(1, l), g.vertex[l],
                                                        g.vertex[(l + 1) % 3]).edge]
    /\ fn_pc' = "keyed"
    /\ UNCHANGED <<stl, phase, hsel, npass, last, prev, fn_in>>

\* the exact pass on the two facets
ConnectEdges ==
    /\ fn_pc = "keyed"
    /\ stl' = stl_check_facets_exact(Fresh(stl))
    /\ prev' = stl
    /\ last' = "exact"
    /\ npass' = npass + 1
    /\ phase' = "built"
    /\ fn_pc' = "matched"
    /\ UNCHANGED <<hsel, fn_in, fn_out>>

SpecKey == InitKey /\ [][LoadEdgeExact \/ ConnectEdges]_vars

-----------------------------------------------------------------------------
(* Binary files (src/src/admesh/stl_io.cpp).  A file is the sequence of    *)
(* its bytes, a label the sequence of the bytes of a C string.             *)

LABEL_SIZE == 80
SIZEOF_STL_FACET == 50

Zeros(n) == [i \in 1..n |-> 0]

\* the float whose memory image is the four bytes b
FloatOfBytes(b) ==
    <<b[4] \div 128,
      CASE b[3] = 0   /\ b[4] % 128 = 0  -> 0
        [] b[3] = 128 /\ b[4] % 128 = 63 -> 1
        [] b[3] = 128 /\ b[4] % 128 = 64 -> 4
        [] b[3] = 160 /\ b[4] % 128 = 64 -> 5>>

\* the 50 bytes of a facet in memory: normal, three vertices, extra
FacetImage(f) ==
    FloatBytes(f.normal[1]) \o FloatBytes(f.normal[2]) \o FloatBytes(f.normal[3])
    \o FloatBytes(f.vertex[0][1]) \o FloatBytes(f.vertex[0][2]) \o FloatBytes(f.vertex[0][3])
    \o FloatBytes(f.vertex[1][1]) \o FloatBytes(f.vertex[1][2]) \o FloatBytes(f.vertex[1][3])
    \o FloatBytes(f.vertex[2][1]) \o FloatBytes(f.vertex[2][2]) \o FloatBytes(f.vertex[2][3])
    \o f.extra

\* the facet whose memory image is the 50 bytes b
FacetOfImage(b) ==
    LET fl(k) == FloatOfBytes(SubSeq(b, 4 * k + 1, 4 * k + 4))
        vx(k) == <<fl(3 * k), fl(3 * k + 1), fl(3 * k + 2)>>
    IN  [vertex |-> [k \in 0..2 |-> vx(k + 1)], normal |-> vx(0), extra |-> SubSeq(b, 49, 50)]

\* a well-formed binary file: header, facet count, facet records
BinaryFile(header, facets) ==
    LET RECURSIVE records(_)
        records(i) == IF i > Len(facets) THEN << >>
                      ELSE FacetImage(facets[i]) \o records(i + 1)
    IN  header \o Int32Bytes(Len(facets)) \o records(1)

\* the structure after the binary file has been read: the header goes into the
\* statistics, the facet records into the facet array
stl_open_binary(file) ==
    LET n == file[LABEL_SIZE + 1] + 256 * file[LABEL_SIZE + 2] + 65536 * file[LABEL_SIZE + 3]
        fs == [i \in 1..n |->
                 FacetOfImage(SubSeq(file, LABEL_SIZE + 4 + SIZEOF_STL_FACET * (i - 1) + 1,
                                     LABEL_SIZE + 4 + SIZEOF_STL_FACET * i))]
    IN  [Loaded(fs) EXCEPT !.stats.header = SubSeq(file, 1, LABEL_SIZE)]

\* fwrite / fprintf of bytes at position pos (bytes 0..pos-1 are there already)
WriteAt(file, pos, bytes) ==
    [i \in 1..Max2(Len(file), pos + Len(bytes)) |->
        IF i > pos /\ i <= pos + Len(bytes) THEN bytes[i - pos] ELSE file[i]]

\* the loop that writes the facets, at facet i; pos is the file position
RECURSIVE write_binary_facets(_, _, _, _)
write_binary_facets(s, file, i, pos) ==
    IF ~(i < s.stats.number_of_facets) THEN file
    ELSE write_binary_facets(s, WriteAt(file, pos, FacetImage(s.facet_start[i])),
                             i + 1, pos + SIZEOF_STL_FACET)

\* no file is made when fopen fails
NoFile == << >>

\* fp is what fopen returns: "NULL" or "fp"; the result is the structure and the file
\* a writer that gives up without a trace: nothing written, no flag set
stl_write_binary_quiet(s, label, fp) == [stl |-> s, file |-> NoFile]

stl_write_binary(s, label, fp) ==
    IF s.error THEN [stl |-> s, file |-> NoFile]
    ELSE IF fp = "NULL" THEN [stl |-> [s EXCEPT !.error = TRUE], file |-> NoFile]
    ELSE [stl  |-> s,
          file |-> write_binary_facets(
                       s,
                       WriteAt(label \o Zeros(Max2(LABEL_SIZE - Len(label), 0)),
                               LABEL_SIZE, Int32Bytes(s.stats.number_of_facets)),
                       0, LABEL_SIZE + 4)]

\* the lines of the ASCII file; a number printed with "% .8E" is kept as the float
RECURSIVE write_ascii_facets(_, _)
write_ascii_facets(s, i) ==
    IF ~(i < s.stats.number_of_facets) THEN << >>
    ELSE << <<"facet normal", s.facet_start[i].normal>>, <<"outer loop">>,
            <<"vertex", s.facet_start[i].vertex[0]>>,
            <<"vertex", s.facet_start[i].vertex[1]>>,
            <<"vertex", s.facet_start[i].vertex[2]>>,
            <<"endloop">>, <<"endfacet">> >> \o write_ascii_facets(s, i + 1)

stl_write_ascii(s, label, fp) ==
    IF s.error THEN [stl |-> s, file |-> NoFile]
    ELSE IF fp = "NULL" THEN [stl |-> [s EXCEPT !.error = TRUE], file |-> NoFile]
    ELSE [stl  |-> s,
          file |-> << <<"solid", label>> >> \o write_ascii_facets(s, 0)
                   \o << <<"endsolid", label>> >>]

stl_clear_error(s) == [s EXCEPT !.error = FALSE]

\* the headers of the files read: zeros, "solid" and zeros, 80 letters
Headers == {Zeros(LABEL_SIZE),
            <<115, 111, 108, 105, 100>> \o Zeros(LABEL_SIZE - 5),
            [i \in 1..LABEL_SIZE |-> 65]}

\* the label "solid"
Solid == <<115, 111, 108, 105, 100>>

\* the labels passed to the writers: empty, "solid", 80 letters, 90 letters
Labels == {<< >>, Solid, [i \in 1..LABEL_SIZE |-> 65],
           [i \in 1..(LABEL_SIZE + 10) |-> 65]}

\* the facets of the files read, with their normals and attributes
FileFacet(a, b, c, normal, extra) ==
    [vertex |-> [k \in 0..2 |-> IF k = 0 THEN a ELSE IF k = 1 THEN b ELSE c],
     normal |-> normal, extra |-> extra]

FilePool ==
    << FileFacet(PA, PC, PB, <<Pz, Pz, M1>>, <<0, 0>>),
       FileFacet(PAn, PB, PD, <<Pz, M1, Nz>>, <<7, 128>>),
       FileFacet(PA1, PB, PB, <<Pz, Pz, Pz>>, <<255, 255>>) >>

MaxFileFacets == 2

InitFile ==
    /\ fn_pc = "file"
    /\ fn_in \in {BinaryFile(h, [i \in 1..Len(m) |-> FilePool[m[i]]]) :
                     h \in Headers,
                     m \in UNION {[1..n -> 1..Len(FilePool)] : n \in 0..MaxFileFacets}}
    /\ fn_out = NoFile
    /\ stl = Loaded(<< >>)
    /\ hsel = 1
    /\ phase = "loaded"
    /\ npass = 0
    /\ last = "none"
    /\ prev = stl

OpenBinary ==
    /\ fn_pc = "file"
    /\ stl' = stl_open_binary(fn_in)
    /\ prev' = stl
    /\ last' = "load"
    /\ fn_pc' = "read"
    /\ UNCHANGED <<phase, hsel, npass, fn_in, fn_out>>

\* stl_write_binary on the mesh just read, to a file that can be opened
WriteBinary ==
    /\ fn_pc = "read"
    /\ \E label \in Labels :
          /\ stl' = stl_write_binary(stl, label, "fp").stl
          /\ fn_out' = stl_write_binary(stl, label, "fp").file
    /\ prev' = stl
    /\ last' = "write_binary"
    /\ fn_pc' = "written"
    /\ UNCHANGED <<phase, hsel, npass, fn_in>>

SpecFile == InitFile /\ [][OpenBinary \/ WriteBinary]_vars

-----------------------------------------------------------------------------
(* The error flag: the writers set it when the file cannot be opened, every *)
(* operation tests it first, stl_clear_error resets it.                    *)

\* an operation that is not one of the passes
Did(name, s) ==
    /\ stl' = s
    /\ prev' = stl
    /\ last' = name
    /\ UNCHANGED <<phase, hsel, npass, fn_in, fn_pc>>

\* a writer called on the mesh; fp = "NULL" is a file that cannot be opened
Write ==
    /\ fn_pc = "mesh" /\ phase \in {"loaded", "built"}
    /\ \E label \in {Solid}, fp \in {"NULL", "fp"} :
          \/ /\ Did(IF fp = "NULL" THEN "binary_null" ELSE "binary",
                     stl_write_binary(stl, label, fp).stl)
             /\ fn_out' = stl_write_binary(stl, label, fp).file
          \/ /\ Did(IF fp = "NULL" THEN "ascii_null" ELSE "ascii",
                     stl_write_ascii(stl, label, fp).stl)
             /\ fn_out' = stl_write_ascii(stl, label, fp).file

AddFacet ==
    /\ fn_pc = "mesh" /\ phase \in {"loaded", "built"}
    /\ stl.stats.number_of_facets < MaxFacets
    /\ Did("add_facet", stl_add_facet(stl, T4))
    /\ UNCHANGED fn_out

ClearError ==
    /\ fn_pc = "mesh" /\ phase \in {"loaded", "built"}
    /\ Did("clear_error", stl_clear_error(stl))
    /\ UNCHANGED fn_out

\* the meshes the error flag is followed on: a closed one, one with a hole, one with
\* a corner to snap
ErrorMeshes == {<<T1, T2, T3, T4>>, <<T1, T2, T3>>, <<T1, Tri(PA1, PB, PD)>>}

InitError == InitMesh(ErrorMeshes)

SpecError == InitError /\ [][Next \/ Write \/ AddFacet \/ ClearError]_vars

-----------------------------------------------------------------------------
(* The statistics of a ModelObject (src/src/libslic3r/Model.cpp).  A       *)
(* volume is [id, model_part, stats]; the object is the sequence volumes.  *)

MaxVolumes == 3     \* volumes of an object

\* the counters of stl_stats that get_object_stl_stats fills
StatsFields ==
    {"degenerate_facets", "edges_fixed", "facets_removed", "facets_added",
     "facets_reversed", "backwards_edges", "volume", "number_of_parts"}

\* the repair counters, which get_mesh_errors_count adds up
ErrorFields ==
    {"degenerate_facets", "edges_fixed", "facets_removed", "facets_added",
     "facets_reversed", "backwards_edges"}

\* memset(&full_stats, 0, sizeof(stl_stats))
ZeroStats == [f \in StatsFields |-> 0]

\* the body of the loop of get_object_stl_stats for one volume
full_stats_add(full_stats, volume) ==
    [f \in StatsFields |->
        IF f \in ErrorFields THEN full_stats[f] + volume.stats[f]
        ELSE IF volume.model_part THEN full_stats[f] + volume.stats[f]
        ELSE full_stats[f]]

\* for (ModelVolume* volume : this->volumes), at the k-th volume
RECURSIVE full_stats_loop(_, _, _)
full_stats_loop(volumes, k, full_stats) ==
    IF k > Len(volumes) THEN full_stats
    ELSE IF volumes[k].id = volumes[1].id
    THEN full_stats_loop(volumes, k + 1, full_stats)
    ELSE full_stats_loop(volumes, k + 1, full_stats_add(full_stats, volumes[k]))

\* ModelObject::get_object_stl_stats
get_object_stl_stats(volumes) ==
    IF Len(volumes) = 1 THEN volumes[1].stats
    ELSE full_stats_loop(volumes, 1, ZeroStats)

\* the sum both get_mesh_errors_count return
errors_of(stats) ==
    stats.degenerate_facets + stats.edges_fixed + stats.facets_removed
        + stats.facets_added + stats.facets_reversed + stats.backwards_edges

\* ModelVolume::get_mesh_errors_count
volume_get_mesh_errors_count(volume) == errors_of(volume.stats)

\* ModelObject::get_mesh_errors_count; vol_idx counts from 0
get_mesh_errors_count(volumes, vol_idx) ==
    IF vol_idx >= 0 THEN volume_get_mesh_errors_count(volumes[vol_idx + 1])
    ELSE errors_of(get_object_stl_stats(volumes))

\* the statistics of the meshes of the volumes
VolumeStats ==
    { [f \in StatsFields |-> IF f \in {"volume", "number_of_parts"} THEN 1 ELSE 0],
      [degenerate_facets |-> 1, edges_fixed |-> 2, facets_removed |-> 1, facets_added |-> 3,
       facets_reversed |-> 1, backwards_edges |-> 2, volume |-> 8, number_of_parts |-> 1],
      [degenerate_facets |-> 0, edges_fixed |-> 4, facets_removed |-> 0, facets_added |-> 0,
       facets_reversed |-> 0, backwards_edges |-> 0, volume |-> 2, number_of_parts |-> 2] }

\* the volumes: a volume added as a copy of another one has the id of that one
VolumePool == [id : 1..2, model_part : BOOLEAN, stats : VolumeStats]

InitStats ==
    /\ fn_pc = "object"
    /\ fn_in \in UNION {[1..n -> VolumePool] : n \in 1..MaxVolumes}
    /\ fn_out = 0
    /\ stl = Loaded(<< >>)
    /\ hsel = 1
    /\ phase = "loaded"
    /\ npass = 0
    /\ last = "load"
    /\ prev = stl

GetObjectStlStats ==
    /\ fn_pc = "object"
    /\ fn_out' = get_object_stl_stats(fn_in)
    /\ fn_pc' = "stats"
    /\ UNCHANGED <<stl, phase, hsel, npass, last, prev, fn_in>>

GetMeshErrorsCount ==
    /\ fn_pc = "object"
    /\ \E vol_idx \in -1..(Len(fn_in) - 1) :
          fn_out' = [vol_idx |-> vol_idx, count |-> get_mesh_errors_count(fn_in, vol_idx)]
    /\ fn_pc' = "errors"
    /\ UNCHANGED <<stl, phase, hsel, npass, last, prev, fn_in>>

SpecStats == InitStats /\ [][GetObjectStlStats \/ GetMeshErrorsCount]_vars

-----------------------------------------------------------------------------
(* MutablePriorityQueue (src/src/libslic3r/MutablePriorityQueue.hpp).      *)
(* The queue is the record [kind, m_heap, objs].  With kind "pointer" T is *)
(* a pointer: an element of m_heap is [ptr |-> id] and objs[id] is the     *)
(* object pointed to, which holds the key and the index the index setter   *)
(* wrote.  With kind "value" T is a value that holds its key and its index *)
(* in itself: an element of m_heap is [key, idx].  Positions count from 0   *)
(* as in the code; position p is m_heap[p + 1] of the sequence.            *)

MaxQueue == 6       \* elements of a queue
MaxKey == 3         \* the keys are 1..MaxKey

QueueItems == 1..MaxQueue
QueueKeys == 1..MaxKey

size(q) == Len(q.m_heap)

\* m_heap[p]
HeapAt(q, p) == q.m_heap[p + 1]

KeyOfItem(q, item) == IF q.kind = "pointer" THEN q.objs[item.ptr].key ELSE item.key

\* the index the element at position p carries
IndexAt(q, p) ==
    IF q.kind = "pointer" THEN q.objs[HeapAt(q, p).ptr].idx ELSE HeapAt(q, p).idx

m_less_predicate(q, a, b) == KeyOfItem(q, a) < KeyOfItem(q, b)

\* m_index_setter(m_heap[p], idx): through the pointer it writes the object, on a
\* value it writes the element of m_heap itself
m_index_setter(q, p, idx) ==
    IF q.kind = "pointer"
    THEN [q EXCEPT !.objs[HeapAt(q, p).ptr].idx = idx]
    ELSE [q EXCEPT !.m_heap[p + 1].idx = idx]

\* the body of the if of update_heap_up: tmp is copied before the index setter runs
heap_up_switch(q, parentIdx, childIdx) ==
    LET tmp == HeapAt(q, parentIdx)
        q1  == m_index_setter(q, parentIdx, childIdx)
        q2  == m_index_setter(q1, childIdx, parentIdx)
        q3  == [q2 EXCEPT !.m_heap[parentIdx + 1] = HeapAt(q2, childIdx)]
    IN  [q3 EXCEPT !.m_heap[childIdx + 1] = tmp]

\* the loop of update_heap_up, at childIdx
RECURSIVE heap_up_loop(_, _, _)
heap_up_loop(q, top, childIdx) ==
    IF childIdx = 0 \/ (childIdx - 1) \div 2 < top THEN q
    ELSE LET parentIdx == (childIdx - 1) \div 2
         IN  heap_up_loop(IF ~m_less_predicate(q, HeapAt(q, parentIdx), HeapAt(q, childIdx))
                          THEN heap_up_switch(q, parentIdx, childIdx)
                          ELSE q,
                          top, parentIdx)

update_heap_up(q, top, bottom) == heap_up_loop(q, top, bottom)

\* "switch nodes" of update_heap_down: tmp is copied after the index setter has run
heap_down_switch(q, parentIdx, childIdx) ==
    LET q1  == m_index_setter(q, parentIdx, childIdx)
        q2  == m_index_setter(q1, childIdx, parentIdx)
        tmp == HeapAt(q2, parentIdx)
        q3  == [q2 EXCEPT !.m_heap[parentIdx + 1] = HeapAt(q2, childIdx)]
    IN  [q3 EXCEPT !.m_heap[childIdx + 1] = tmp]

\* the child update_heap_down compares the parent with
heap_down_child(q, parentIdx, bottom) ==
    LET childIdx  == 2 * parentIdx + 1
        child2Idx == childIdx + 1
    IN  IF child2Idx <= bottom
           /\ ~m_less_predicate(q, HeapAt(q, childIdx), HeapAt(q, child2Idx))
        THEN child2Idx ELSE childIdx

\* the loop of update_heap_down, at parentIdx
RECURSIVE heap_down_loop(_, _, _)
heap_down_loop(q, parentIdx, bottom) ==
    IF 2 * parentIdx + 1 > bottom THEN q
    ELSE LET childIdx == heap_down_child(q, parentIdx, bottom)
         IN  IF m_less_predicate(q, HeapAt(q, parentIdx), HeapAt(q, childIdx)) THEN q
             ELSE heap_down_loop(heap_down_switch(q, parentIdx, childIdx), childIdx, bottom)

update_heap_down(q, top, bottom) == heap_down_loop(q, top, bottom)

push(q, item) ==
    LET idx == size(q)
        q1  == [q EXCEPT !.m_heap = Append(@, item)]
    IN  update_heap_up(m_index_setter(q1, idx, idx), 0, idx)

PopBack(q) == [q EXCEPT !.m_heap = SubSeq(@, 1, Len(@) - 1)]

pop(q) ==
    IF size(q) > 1
    THEN LET q1 == PopBack([q EXCEPT !.m_heap[1] = q.m_heap[Len(q.m_heap)]])
         IN  update_heap_down(m_index_setter(q1, 0, 0), 0, size(q1) - 1)
    ELSE [q EXCEPT !.m_heap = << >>]

\* mutant of remove: the element put at idx is moved down only
remove_down_only(q, idx) ==
    IF idx + 1 = size(q) THEN PopBack(q)
    ELSE LET q1 == m_index_setter([q EXCEPT !.m_heap[idx + 1] = q.m_heap[Len(q.m_heap)]],
                                  idx, idx)
             q2 == PopBack(q1)
         IN  update_heap_down(q2, idx, size(q2) - 1)

remove(q, idx) ==
    IF idx + 1 = size(q) THEN PopBack(q)
    ELSE LET q1 == m_index_setter([q EXCEPT !.m_heap[idx + 1] = q.m_heap[Len(q.m_heap)]],
                                  idx, idx)
             q2 == PopBack(q1)
         IN  update_heap_up(update_heap_down(q2, idx, size(q2) - 1), 0, idx)

update(q, idx) == push(remove(q, idx), HeapAt(q, idx))

top(q) == HeapAt(q, 0)

\* an element made by the caller: it carries no index yet, the field holds 0
NewItem(q, id, key) == IF q.kind = "pointer" THEN [ptr |-> id] ELSE [key |-> key, idx |-> 0]

\* the caller writes the key of the element at position p, through the pointer it
\* holds or through the reference top() returns
SetKey(q, p, key) ==
    IF q.kind = "pointer"
    THEN [q EXCEPT !.objs[HeapAt(q, p).ptr].key = key]
    ELSE [q EXCEPT !.m_heap[p + 1].key = key]

NoObjs == [id \in QueueItems |-> [key |-> 1, idx |-> 0]]

\* fn_in is the queue, fn_out what the last call was and the number of pushes less
\* the number of pops and removes
InitQueue ==
    /\ fn_pc = "queue"
    /\ \E kind \in {"pointer", "value"} :
          fn_in = [kind |-> kind, m_heap |-> << >>, objs |-> NoObjs]
    /\ fn_out = [op |-> "new", count |-> 0]
    /\ stl = Loaded(<< >>)
    /\ hsel = 1
    /\ phase = "loaded"
    /\ npass = 0
    /\ last = "load"
    /\ prev = stl

\* between two calls the objects are named by the position of their pointer in
\* m_heap, and objs keeps the objects of the elements of the queue only
Renamed(q) ==
    IF q.kind = "pointer"
    THEN [q EXCEPT !.m_heap = [p \in 1..Len(q.m_heap) |-> [ptr |-> p]],
                   !.objs = [id \in QueueItems |-> IF id <= Len(q.m_heap)
                                                   THEN q.objs[q.m_heap[id].ptr]
                                                   ELSE NoObjs[id]]]
    ELSE q

QueueDid(q, op, count) ==
    /\ fn_in' = Renamed(q)
    /\ fn_out' = [op |-> op, count |-> count]
    /\ UNCHANGED <<stl, hsel, phase, npass, last, prev, fn_pc>>

\* the name of an object that is not in the queue
FreeId(q) == size(q) + 1

Push ==
    /\ fn_pc = "queue"
    /\ size(fn_in) < MaxQueue
    /\ \E key \in QueueKeys :
          LET id == FreeId(fn_in)
              q  == IF fn_in.kind = "pointer"
                    THEN [fn_in EXCEPT !.objs[id] = [key |-> key, idx |-> 0]]
                    ELSE fn_in
          IN  QueueDid(push(q, NewItem(q, id, key)), "push", fn_out.count + 1)

\* pop() asserts that the queue is not empty
Pop ==
    /\ fn_pc = "queue"
    /\ size(fn_in) > 0
    /\ QueueDid(pop(fn_in), "pop", fn_out.count - 1)

\* remove(idx) asserts idx < size()
Remove ==
    /\ fn_pc = "queue"
    /\ \E idx \in 0..(size(fn_in) - 1) :
          QueueDid(remove(fn_in, idx), "remove", fn_out.count - 1)

\* the caller changes the key of an element and calls update with its position
Update ==
    /\ fn_pc = "queue"
    /\ \E idx \in 0..(size(fn_in) - 1), key \in QueueKeys :
          /\ fn_in.kind = "value" => (idx = 0 \/ key = KeyOfItem(fn_in, HeapAt(fn_in, idx)))
          /\ QueueDid(update(SetKey(fn_in, idx, key), idx), "update", fn_out.count)

SpecQueue == InitQueue /\ [][Push \/ Pop \/ Remove \/ Update]_vars

-----------------------------------------------------------------------------
(* Properties of the neighbours list.                                      *)

NumFacets(s) == s.stats.number_of_facets
FacetIds(s) == 0..(NumFacets(s) - 1)
Neighbor(s, i, j) == s.neighbors_start[i].neighbor[j]
VertexNot(s, i, j) == s.neighbors_start[i].which_vertex_not[j]

\* the last pass has returned
Returned == fn_pc = "mesh" /\ npass > 0 /\ phase # "hung"

\* C1: neighbour symmetry.  After any sequence of the passes, a slot of facet i that
\* holds k (not -1) is answered by some slot of facet k that holds i.
NeighbourSymmetry ==
    Returned =>
        \A i \in FacetIds(stl), j \in 0..2 :
            LET k == Neighbor(stl, i, j)
            IN  k # -1 => /\ k \in FacetIds(stl)
                          /\ \E jj \in 0..2 : Neighbor(stl, k, jj) = i

\* C2: edge correspondence.  After any sequence of the passes, for a connected slot
\* (i, j) with neighbour k, the slot jj = (which_vertex_not[i][j] + 1) mod 3 of k
\* holds i and the two which_vertex_not agree with j + jj modulo 3; the check of
\* stl_remove_facet never prints "this is wrong".
EdgeCorrespondence ==
    Returned =>
        /\ "this is wrong" \notin stl.printed
        /\ \A i \in FacetIds(stl), j \in 0..2 :
              LET k  == Neighbor(stl, i, j)
                  jj == (VertexNot(stl, i, j) + 1) % 3
              IN  k # -1 =>
                     /\ k \in FacetIds(stl)
                     /\ Neighbor(stl, k, jj) = i
                     /\ ((VertexNot(stl, i, j) % 3) + (VertexNot(stl, k, jj) % 3) + 2) % 3
                           = (j + jj) % 3

\* C3: index validity.  When a pass has returned, every neighbour entry of a facet i is
\* -1 or the index of another facet of the array, and the which_vertex_not of a
\* connected slot is in 0..5.
IndexValidity ==
    Returned =>
        \A i \in FacetIds(stl), j \in 0..2 :
            /\ Neighbor(stl, i, j) \in ({-1} \cup FacetIds(stl)) \ {i}
            /\ Neighbor(stl, i, j) # -1 => VertexNot(stl, i, j) \in 0..5

\* C4: when stl_check_facets_exact or stl_remove_unconnected_facets has returned, no
\* facet of the array has two equal vertices (the facet swapped in for a removed one
\* has been examined too).
NoDegenerateLeft ==
    (Returned /\ last \in {"exact", "remove"}) =>
        \A i \in FacetIds(stl) : ~IsDegenerate(stl.facet_start[i])

\* a state in which stl_check_facets_exact has removed a degenerate facet and put
\* another degenerate facet, the last of the array, in its place
SwappedInDegenerate ==
    /\ Returned /\ last = "exact"
    /\ NumFacets(prev) >= 3
    /\ IsDegenerate(prev.facet_start[NumFacets(prev) - 1])
    /\ \E i \in 0..(NumFacets(prev) - 2) :
          /\ IsDegenerate(prev.facet_start[i])
          /\ \A k \in 0..(i - 1) : ~IsDegenerate(prev.facet_start[k])
    /\ NumFacets(stl) >= 1

\* the facets of s that are not degenerate
Sound(s) == {i \in FacetIds(s) : ~IsDegenerate(s.facet_start[i])}

\* C5: stl_check_facets_exact, run on N facets of which d are degenerate, leaves the
\* N - d other facets (each as often as it was there), number_of_facets = N - d, and
\* degenerate_facets and facets_removed raised by d; a single degenerate facet leaves
\* an empty mesh with both counters 1.
ExactRemovesDegenerate ==
    (Returned /\ last = "exact") =>
        LET d == NumFacets(prev) - Cardinality(Sound(prev))
        IN  /\ NumFacets(stl) = NumFacets(prev) - d
            /\ stl.stats.degenerate_facets = prev.stats.degenerate_facets + d
            /\ stl.stats.facets_removed = prev.stats.facets_removed + d
            /\ \A i \in FacetIds(stl) :
                  Cardinality({k \in FacetIds(stl) : stl.facet_start[k] = stl.facet_start[i]})
                     = Cardinality({k \in Sound(prev) : prev.facet_start[k] = stl.facet_start[i]})
            /\ (npass = 1 /\ NumFacets(prev) = 1 /\ d = 1) =>
                  /\ NumFacets(stl) = 0
                  /\ stl.stats.degenerate_facets = 1
                  /\ stl.stats.facets_removed = 1

\* a state in which stl_check_facets_exact has removed some facets and kept others
RemovedSomeKeptSome ==
    /\ Returned /\ last = "exact"
    /\ NumFacets(prev) - Cardinality(Sound(prev)) >= 2
    /\ NumFacets(stl) >= 2
    /\ stl.stats.degenerate_facets = prev.stats.degenerate_facets + 2

-----------------------------------------------------------------------------
(* Closed meshes and holes.                                                *)

\* the facets of s, as a sequence
FacetsOf(s) == [i \in 1..NumFacets(s) |-> s.facet_start[i - 1]]

AllConnected(s) == \A i \in FacetIds(s), j \in 0..2 : Neighbor(s, i, j) # -1

\* C6: on a mesh without degenerate facets in which every undirected edge is used by
\* exactly two facets, stl_check_facets_exact connects every slot and leaves
\* connected_facets_1_edge = connected_facets_2_edge = connected_facets_3_edge = N and
\* connected_edges = 3N, in any order of the facets and with any hash function.
ExactConnectsClosed ==
    (Returned /\ last = "exact" /\ IsClosed(FacetsOf(prev))) =>
        /\ NumFacets(stl) = NumFacets(prev)
        /\ AllConnected(stl)
        /\ stl.stats.connected_facets_1_edge = NumFacets(stl)
        /\ stl.stats.connected_facets_2_edge = NumFacets(stl)
        /\ stl.stats.connected_facets_3_edge = NumFacets(stl)
        /\ stl.stats.connected_edges = 3 * NumFacets(stl)

\* a tetrahedron loaded with its last face first, all edges in one hash bucket, connected
TetrahedronConnected ==
    /\ Returned /\ last = "exact" /\ npass = 1
    /\ IsClosed(fn_in) /\ Len(fn_in) = 4 /\ fn_in[1] = T4
    /\ hsel = 1 /\ stl.stats.collisions > 0
    /\ stl.stats.connected_facets_3_edge = 4

\* C7: on a closed mesh with one facet taken out, stl_check_facets_exact followed by
\* stl_fill_holes adds exactly one facet, whose vertices are the three points of the
\* boundary, and then every facet has three neighbours.
FillClosesHole ==
    (fn_pc = "mesh" /\ last = "fill" /\ npass = 2 /\ IsHole(fn_in)) =>
        /\ Returned
        /\ stl.stats.facets_added = prev.stats.facets_added + 1
        /\ NumFacets(stl) = NumFacets(prev) + 1
        /\ {Val(stl.facet_start[NumFacets(stl) - 1].vertex[k]) : k \in 0..2} = BoundaryPoints(fn_in)
        /\ AllConnected(stl)

\* a tetrahedron without one face, after the exact pass and the filling
HoleFilled ==
    /\ Returned /\ last = "fill" /\ npass = 2
    /\ IsHole(fn_in) /\ Len(fn_in) = 3
    /\ ~AllConnected(prev)
    /\ NumFacets(stl) = 4

-----------------------------------------------------------------------------
(* Repair.                                                                 *)

\* C8: on a mesh without degenerate facets in which every edge has an exact partner, a
\* second run of the sequence exact, nearby, remove unconnected, fill holes leaves the
\* facet array, the neighbour table and the connected_* counters as the first run left
\* them, and does not change degenerate_facets, facets_removed, facets_added, edges_fixed.
RepairIdempotent ==
    (Returned /\ last = "repair" /\ npass = 2 /\ IsClean(fn_in)) =>
        /\ FacetsOf(stl) = FacetsOf(prev)
        /\ \A i \in FacetIds(stl) : stl.neighbors_start[i] = prev.neighbors_start[i]
        /\ stl.stats.connected_edges = prev.stats.connected_edges
        /\ stl.stats.connected_facets_1_edge = prev.stats.connected_facets_1_edge
        /\ stl.stats.connected_facets_2_edge = prev.stats.connected_facets_2_edge
        /\ stl.stats.connected_facets_3_edge = prev.stats.connected_facets_3_edge
        /\ stl.stats.degenerate_facets = prev.stats.degenerate_facets
        /\ stl.stats.facets_removed = prev.stats.facets_removed
        /\ stl.stats.facets_added = prev.stats.facets_added
        /\ stl.stats.edges_fixed = prev.stats.edges_fixed

\* a tetrahedron repaired twice
RepairedTwice ==
    /\ Returned /\ last = "repair" /\ npass = 2
    /\ IsClean(fn_in) /\ Len(fn_in) = 4
    /\ stl.stats.connected_edges = 12

-----------------------------------------------------------------------------
(* Hash-table size and edge keys.                                          *)

\* p > 6N - 1, that is 6N <= p, in a form that stays within 32 bits
Above(p, N) == N <= p \div 6

\* C9: for every facet count N >= 0, N = 0 included, hash_size_from_nr_faces(N) is the
\* smallest prime of the table that is greater than 6N - 1, and the largest prime of
\* the table when none is.
HashSizeSmallestAbove ==
    fn_pc = "out" =>
        LET above == {k \in 1..Len(primes) : Above(primes[k], fn_in)}
        IN  IF above = {} THEN fn_out = primes[Len(primes)]
            ELSE fn_out = primes[CHOOSE k \in above : \A m \in above : k <= m]

NegZeroWord == <<0, 0, 0, 128>>
PosZeroWord == <<0, 0, 0, 0>>

\* C10: stl_load_edge_exact turns every key word 0x80000000 into 0x00000000 and leaves
\* the other words as they are; doing so again changes nothing; two edges of different
\* facets that join the same points up to the sign of zeros get equal keys and
\* stl_check_facets_exact makes the two facets neighbours along them.
KeyNormalised ==
    fn_pc \in {"keyed", "matched"} =>
        /\ \A w \in 0..5 :
              /\ fn_out.edge_a.key[w] = IF fn_out.raw_a[w] = NegZeroWord THEN PosZeroWord
                                        ELSE fn_out.raw_a[w]
              /\ fn_out.edge_b.key[w] = IF fn_out.raw_b[w] = NegZeroWord THEN PosZeroWord
                                        ELSE fn_out.raw_b[w]
        /\ NormalizeKey(fn_out.edge_a.key) = fn_out.edge_a.key
        /\ NormalizeKey(fn_out.edge_b.key) = fn_out.edge_b.key
        /\ SameEdge(fn_in[1], fn_out.j, fn_in[2], fn_out.l) =>
              /\ fn_out.edge_a.key = fn_out.edge_b.key
              /\ ~stl_compare_function(fn_out.edge_a, fn_out.edge_b)
              /\ fn_pc = "matched" =>
                    /\ Neighbor(stl, 0, fn_out.j) = 1
                    /\ Neighbor(stl, 1, fn_out.l) = 0

\* two edges whose keys differ before the negative zeros are removed, matched
SignOfZeroMatched ==
    /\ fn_pc = "matched"
    /\ SameEdge(fn_in[1], fn_out.j, fn_in[2], fn_out.l)
    /\ fn_out.raw_a # fn_out.raw_b
    /\ \E w \in 0..5 : fn_out.raw_a[w] = NegZeroWord
    /\ fn_out.edge_a.key = fn_out.edge_b.key
    /\ Neighbor(stl, 0, fn_out.j) = 1

-----------------------------------------------------------------------------
(* Files, the hash table, the match rule and the counters.                 *)

\* C11: binary round trip.  stl_write_binary of a mesh just read from a well-formed
\* binary file writes that file again byte for byte (header, facet count, the 50-byte
\* facet records), 84 + 50 N bytes in all, whatever label is passed.
BinaryRoundTrip ==
    fn_pc = "written" =>
        /\ fn_out = fn_in
        /\ Len(fn_out) = LABEL_SIZE + 4 + SIZEOF_STL_FACET * NumFacets(stl)

\* C12: hash-table lifetime.  When stl_check_facets_exact, stl_check_facets_nearby or
\* stl_fill_holes has returned, the table it made is torn down: every record allocated
\* has been freed (freed = malloced) and heads and tail are released.
TableTornDown ==
    (Returned /\ last \in {"exact", "nearby", "fill"}) =>
        /\ stl.stats.freed = stl.stats.malloced
        /\ stl.heads = NoHeads
        /\ ~stl.table

\* the edge j of facet i of s, as stl_load_edge_exact loads it
ExactEdge(s, i, j) ==
    stl_load_edge_exact(s, NewEdge(i, j), s.facet_start[i].vertex[j],
                        s.facet_start[i].vertex[(j + 1) % 3]).edge

\* the slot of the neighbour across slot j of facet i that which_vertex_not names
PartnerSlot(s, i, j) == (VertexNot(s, i, j) + 1) % 3

\* C13: match rule.  Two edges (those of the facets the first exact pass has left) are
\* a match exactly when their keys are equal and their facet numbers differ; so when stl_check_facets_exact has made i and k neighbours
\* across slots j and j', i # k and edge j of i joins the same two points as edge j' of k.
MatchRule ==
    (Returned /\ last = "exact") =>
        /\ npass = 1 =>
              LET edges == [x \in FacetIds(stl) \X (0..2) |-> ExactEdge(stl, x[1], x[2])]
              IN  \A x \in DOMAIN edges, y \in DOMAIN edges :
                     ~stl_compare_function(edges[x], edges[y])
                        <=> (edges[x].key = edges[y].key /\ x[1] # y[1])
        /\ \A i \in FacetIds(stl), j \in 0..2 :
              LET k == Neighbor(stl, i, j)
              IN  k # -1 =>
                     /\ k # i
                     /\ k \in FacetIds(stl)
                     /\ Neighbor(stl, k, PartnerSlot(stl, i, j)) = i
                     /\ SameEdge(stl.facet_start[i], j,
                                 stl.facet_start[k], PartnerSlot(stl, i, j))

\* two facets that share one edge only, made neighbours along it
SharedEdgeMatched ==
    /\ Returned /\ last = "exact" /\ NumFacets(stl) >= 3
    /\ \E i \in FacetIds(stl), j \in 0..2 :
          /\ Neighbor(stl, i, j) # -1
          /\ stl.facet_start[Neighbor(stl, i, j)] # stl.facet_start[i]
          /\ \E l \in 0..2 : Neighbor(stl, i, l) = -1

\* the number of facets of s that have at least k connected slots
AtLeast(s, k) == Cardinality({i \in FacetIds(s) : 3 - Unconnected(s.neighbors_start[i]) >= k})

\* C14: connectivity counters.  In every state reached by the passes,
\* connected_facets_k_edge is the number of facets with at least k connected slots, and
\* the three figures stl_stats_out prints from them are not negative.
CountersTrue ==
    Returned =>
        /\ stl.stats.connected_facets_1_edge = AtLeast(stl, 1)
        /\ stl.stats.connected_facets_2_edge = AtLeast(stl, 2)
        /\ stl.stats.connected_facets_3_edge = AtLeast(stl, 3)
        /\ stl.stats.connected_facets_2_edge - stl.stats.connected_facets_3_edge >= 0
        /\ stl.stats.connected_facets_1_edge - stl.stats.connected_facets_2_edge >= 0
        /\ stl.stats.number_of_facets - stl.stats.connected_facets_1_edge >= 0

\* C16: orientation marker.  After stl_check_facets_exact, for a connected slot (i, j)
\* with partner slot (k, j'), which_vertex_not[i][j] >= 3 exactly when
\* which_vertex_not[k][j'] >= 3, and exactly when vertex j of facet i is vertex j' of
\* facet k (the two facets run along the edge in the same direction).
OrientationMarker ==
    (Returned /\ last = "exact") =>
        \A i \in FacetIds(stl), j \in 0..2 :
            LET k  == Neighbor(stl, i, j)
                jj == PartnerSlot(stl, i, j)
            IN  k # -1 =>
                   /\ (VertexNot(stl, i, j) >= 3) <=> (VertexNot(stl, k, jj) >= 3)
                   /\ (VertexNot(stl, i, j) >= 3)
                         <=> VertexEq(stl.facet_start[i].vertex[j], stl.facet_start[k].vertex[jj])
                   /\ VertexNot(stl, i, j) \in 0..5

\* a mesh with a pair of facets wound the same way along their edge and a pair wound
\* consistently, after the exact pass
BothOrientations ==
    /\ Returned /\ last = "exact"
    /\ \E i \in FacetIds(stl), j \in 0..2 : Neighbor(stl, i, j) # -1 /\ VertexNot(stl, i, j) >= 3
    /\ \E i \in FacetIds(stl), j \in 0..2 : Neighbor(stl, i, j) # -1 /\ VertexNot(stl, i, j) < 3

-----------------------------------------------------------------------------
(* The error flag.                                                         *)

\* facets, neighbours and statistics of s are those of t
SameMesh(s, t) ==
    /\ s.facet_start = t.facet_start
    /\ s.neighbors_start = t.neighbors_start
    /\ s.stats = t.stats

\* C15: sticky error.  A writer that cannot open its file sets the error flag and
\* leaves facets, neighbours and statistics as they were; while the flag is set, every
\* operation (the four passes, stl_add_facet, the writers) returns with the flag set,
\* the mesh unchanged and nothing written; stl_clear_error resets the flag only.
StickyError ==
    /\ last \in {"binary_null", "ascii_null"} => stl.error /\ SameMesh(stl, prev)
    /\ (prev.error /\ last # "clear_error") =>
           /\ stl.error /\ SameMesh(stl, prev)
           /\ last \in {"binary", "ascii", "binary_null", "ascii_null"} => fn_out = NoFile
    /\ last = "clear_error" => ~stl.error /\ SameMesh(stl, prev)

\* the exact pass called with the flag set on a mesh whose edges it would have connected
PassUnderError ==
    /\ last = "exact" /\ prev.error /\ prev.stats.number_of_facets >= 2
    /\ prev.stats.connected_edges = 0

-----------------------------------------------------------------------------
(* Vertex snapping.                                                        *)

\* C17: snap postcondition.  When stl_match_neighbors_nearby returns from a matched pair
\* (edge_a, edge_b), facet_a.vertex[v1a] = facet_b.vertex[v1b] and
\* facet_a.vertex[v2a] = facet_b.vertex[v2b]: no match of a nearby pass has returned
\* with the two facets apart at an endpoint.
SnapPostcondition ==
    last = "nearby" => ~stl.snap_bad

\* a nearby pass in which matches moved vertices along fans of two facets or more, one
\* of the walks being given up at its first facet
SnapMoved ==
    /\ last = "nearby" /\ Returned
    /\ "mobius_change" \in stl.printed
    /\ stl.stats.edges_fixed > prev.stats.edges_fixed
    /\ stl.steps >= 2
    /\ Cardinality({x \in FacetIds(stl) \X (0..2) :
                       x[1] \in FacetIds(prev)
                       /\ stl.facet_start[x[1]].vertex[x[2]] # prev.facet_start[x[1]].vertex[x[2]]}) >= 2

\* C18: snap preference.  Of the two vertices a nearby match finds apart at an endpoint,
\* the one moved is on the facet whose other edge at that corner is unconnected (the
\* matched edge was unconnected on both facets until the match): when only one of the
\* two corners is free, it is that facet's vertex that moves.
SnapPreference ==
    last = "nearby" =>
        \A r \in stl.snaps : (r.free_a # r.free_b) => (r.moved_a <=> r.free_a)

\* C19: fan-walk termination.  No walk of stl_change_vertices comes back to a walk state
\* (facet, which_vertex_not, direction) it has been in: every walk ends, at a slot whose
\* neighbour is -1 or at its first facet, and the nearby pass returns.
FanWalkEnds ==
    last = "nearby" => (~stl.hung /\ phase # "hung")

\* a walk of three steps or more that ended
LongWalk ==
    /\ last = "nearby" /\ Returned /\ stl.steps >= 3

\* C20: no partial edits on a Moebius abort.  When a walk of stl_change_vertices comes
\* back to its first facet and is given up, the facet array is what it was when the walk
\* started: no nearby pass has given up a walk that had changed a vertex.
NoPartialEdits ==
    last = "nearby" => ~stl.mobius_edit

-----------------------------------------------------------------------------
(* Hole filling.                                                           *)

\* the neighbour table of s satisfies the symmetry and edge-correspondence invariants
TableInvariants(s) ==
    \A i \in FacetIds(s), j \in 0..2 :
        LET k  == Neighbor(s, i, j)
            jj == (VertexNot(s, i, j) + 1) % 3
        IN  k # -1 =>
               /\ k \in FacetIds(s)
               /\ Neighbor(s, k, jj) = i
               /\ ((VertexNot(s, i, j) % 3) + (VertexNot(s, k, jj) % 3) + 2) % 3 = (j + jj) % 3

\* the unconnected edges of s
OpenSlots(s) == {x \in FacetIds(s) \X (0..2) : Neighbor(s, x[1], x[2]) = -1}

\* C21: on a mesh whose neighbour table satisfies the symmetry and edge-correspondence
\* invariants stl_fill_holes terminates, does not lower number_of_facets, and raises
\* facets_added and number_of_facets by the same amount, at most the number of
\* unconnected edges there were when it started.
FillProgress ==
    (fn_pc = "mesh" /\ last = "fill" /\ ~prev.error /\ TableInvariants(prev)) =>
        /\ ~stl.hung /\ ~stl.overrun /\ phase # "hung"
        /\ NumFacets(stl) >= NumFacets(prev)
        /\ NumFacets(stl) - NumFacets(prev) = stl.stats.facets_added - prev.stats.facets_added
        /\ stl.stats.facets_added - prev.stats.facets_added <= Cardinality(OpenSlots(prev))

\* a filling that added a facet and then visited it, and filled an edge of it too
FilledTheFilling ==
    /\ fn_pc = "mesh" /\ last = "fill" /\ ~prev.error /\ TableInvariants(prev)
    /\ stl.stats.facets_added >= prev.stats.facets_added + 2
    /\ \E i \in FacetIds(stl) \ FacetIds(prev) :
          \E j \in 0..2 : Neighbor(stl, i, j) \in FacetIds(stl) \ FacetIds(prev)

\* the slot the second loop of stl_fill_holes comes to first among the unconnected ones
FirstOpen(s) ==
    CHOOSE x \in OpenSlots(s) :
        \A y \in OpenSlots(s) : x[1] < y[1] \/ (x[1] = y[1] /\ x[2] <= y[2])

\* what the walk of stl_fill_holes from the unconnected slot x of s ends with
WalkFrom(s, x) ==
    fill_walk(s, x[1], (x[2] + 2) % 3,
              IF Neighbor(s, x[1], (x[2] + 2) % 3) = -1 THEN 1 ELSE 0, x[1], WalkFuel(s)).kind

\* the unconnected slots of facets after the one given up whose walk ends at an
\* unconnected edge: the holes stl_fill_holes would fill if it came to them
LeftUnfilled(s) ==
    {x \in OpenSlots(s) : x[1] > FirstOpen(s)[1] /\ WalkFrom(s, x) = "open"}

\* C22: when a walk of stl_fill_holes has come back to its first facet, the unconnected
\* edges of the later facets have been examined in the same call: none is left whose
\* walk ends at an unconnected edge.
FillGoesOn ==
    (fn_pc = "mesh" /\ last = "fill" /\ "mobius_fill" \in stl.printed) =>
        LeftUnfilled(stl) = {}

-----------------------------------------------------------------------------
(* Removal of unconnected facets.                                          *)

\* the facets of s with no neighbour at all
Lone(s) == {i \in FacetIds(s) : Unconnected(s.neighbors_start[i]) = 3}

\* facet i of s is facet k of t, with the same facets behind its three slots (a slot
\* that holds -1 or no index of the array holds what it held)
KeptAs(s, i, t, k) ==
    /\ s.facet_start[i] = t.facet_start[k]
    /\ \A j \in 0..2 :
          IF Neighbor(t, k, j) \notin FacetIds(t) THEN Neighbor(s, i, j) = Neighbor(t, k, j)
          ELSE /\ Neighbor(s, i, j) \in FacetIds(s)
               /\ s.facet_start[Neighbor(s, i, j)] = t.facet_start[Neighbor(t, k, j)]
               /\ VertexNot(s, i, j) = VertexNot(t, k, j)

\* no facet of s is degenerate
NoDegenerate(s) == \A i \in FacetIds(s) : ~IsDegenerate(s.facet_start[i])

-----------------------------------------------------------------------------
(* The counters of the nearby pass.                                        *)

\* the slots that held -1 in t and hold a facet index in s
NewlyConnected(s, t) ==
    {x \in FacetIds(t) \X (0..2) : Neighbor(t, x[1], x[2]) = -1 /\ Neighbor(s, x[1], x[2]) # -1}

\* C24: over one call of stl_check_facets_nearby edges_fixed rises by 2 for every pair
\* of edges matched: its increase is the increase of connected_edges and the number of
\* slots that went from -1 to a facet index, and no slot connected before has changed.
NearbyCounts ==
    (Returned /\ last = "nearby" /\ ~prev.error) =>
        /\ NumFacets(stl) = NumFacets(prev)
        /\ stl.stats.edges_fixed - prev.stats.edges_fixed
              = stl.stats.connected_edges - prev.stats.connected_edges
        /\ stl.stats.edges_fixed - prev.stats.edges_fixed
              = Cardinality(NewlyConnected(stl, prev))
        /\ \A i \in FacetIds(prev), j \in 0..2 :
              Neighbor(prev, i, j) # -1 =>
                 /\ Neighbor(stl, i, j) = Neighbor(prev, i, j)
                 /\ VertexNot(stl, i, j) = VertexNot(prev, i, j)

\* a nearby pass that matched two pairs of edges and moved one vertex: the ends of the
\* second pair were equal when it was matched
MatchedWithoutMove ==
    /\ Returned /\ last = "nearby" /\ ~prev.error
    /\ stl.stats.edges_fixed = prev.stats.edges_fixed + 4
    /\ Cardinality(NewlyConnected(stl, prev)) = 4
    /\ Cardinality({x \in FacetIds(prev) \X (0..2) :
                        stl.facet_start[x[1]].vertex[x[2]] # prev.facet_start[x[1]].vertex[x[2]]}) = 1
    /\ \E i \in FacetIds(prev), j \in 0..2 : Neighbor(prev, i, j) # -1

-----------------------------------------------------------------------------
(* What stl_check_facets_exact leaves of the facets.                       *)

-----------------------------------------------------------------------------
(* The statistics of an object.                                            *)

\* the sum of the counter f over the volumes from the k-th on
RECURSIVE SumOver(_, _, _)
SumOver(volumes, f, k) ==
    IF k > Len(volumes) THEN 0 ELSE volumes[k].stats[f] + SumOver(volumes, f, k + 1)

\* the sum of ModelVolume::get_mesh_errors_count over the volumes from the k-th on
RECURSIVE SumErrors(_, _)
SumErrors(volumes, k) ==
    IF k > Len(volumes) THEN 0
    ELSE volume_get_mesh_errors_count(volumes[k]) + SumErrors(volumes, k + 1)

\* C26: for an object of one, two or more volumes every repair counter of the result of
\* get_object_stl_stats is the sum of that counter over all the volumes, and
\* get_mesh_errors_count(-1) is the sum of ModelVolume::get_mesh_errors_count over them.
ObjectStatsAreSums ==
    /\ fn_pc = "stats" => \A f \in ErrorFields : fn_out[f] = SumOver(fn_in, f, 1)
    /\ (fn_pc = "errors" /\ fn_out.vol_idx = -1) => fn_out.count = SumErrors(fn_in, 1)

-----------------------------------------------------------------------------
(* The indices used by stl_remove_unconnected_facets.                      *)

\* C27: during stl_remove_unconnected_facets every facet index used to read or write
\* the neighbour array lies in 0..number_of_facets-1 at the time of the access:
\* stl_update_connects_remove_1 is not called with -1, and the slot of the neighbour
\* across the collapsed edge is not written at an index the removal has invalidated
\* (oob: an index outside the array was used; stale: neighbor3 was written at an
\* index at or beyond number_of_facets)
NoSentinelAccess ==
    (fn_pc = "mesh" /\ last = "remove" /\ npass > 0) => ~stl.oob /\ ~stl.stale

-----------------------------------------------------------------------------
(* The matching of the edges is maximal.                                   *)

AllSlots(s) == FacetIds(s) \X (0..2)

\* the slots of s whose edge has the key of the edge of slot x
SameKey(s, x) ==
    {y \in AllSlots(s) : ExactEdge(s, y[1], y[2]).key = ExactEdge(s, x[1], x[2]).key}

\* C28: maximal matching.  Whenever insert_hash_edge has returned during a hashing pass
\* (exact, nearby, fill), the records of the table that carry one key belong to one
\* facet.  When stl_check_facets_exact returns, no two unconnected slots of two
\* different facets have edges of equal keys, and of the slots that share one key an
\* odd one is left unconnected and the others are connected: none is left when their
\* number is even, one when it is odd.
MaximalMatching ==
    /\ (fn_pc = "mesh" /\ npass > 0 /\ last \in {"exact", "nearby", "fill"}) => ~stl.mixed
    /\ (fn_pc = "mesh" /\ npass > 0 /\ last = "exact" /\ ~prev.error) =>
          /\ Returned
          /\ \A x \in OpenSlots(stl), y \in OpenSlots(stl) :
                 ExactEdge(stl, x[1], x[2]).key = ExactEdge(stl, y[1], y[2]).key
                    => x[1] = y[1]
          /\ \A x \in AllSlots(stl) :
                 Cardinality(SameKey(stl, x) \cap OpenSlots(stl))
                    = Cardinality(SameKey(stl, x)) % 2

\* stl_check_facets_exact has run on a mesh where three facets share one edge and on
\* a mesh where four do
OddOneLeft ==
    /\ fn_pc = "mesh" /\ last = "exact" /\ Returned
    /\ \E x \in AllSlots(stl) :
          /\ Cardinality(SameKey(stl, x)) = 3
          /\ Cardinality(SameKey(stl, x) \cap OpenSlots(stl)) = 1

-----------------------------------------------------------------------------
(* The priority queue.                                                     *)

Positions(q) == 0..(size(q) - 1)

KeysOf(q) == [p \in 1..size(q) |-> KeyOfItem(q, q.m_heap[p])]

\* C29: heap order.  After any sequence of push, pop, remove(idx) with idx < size()
\* and update(idx), no element of m_heap is less, by the less predicate, than its
\* parent at (p - 1) / 2, top() is a minimum of the elements, and size() is the
\* number of pushes less the number of pops and removes.
HeapOrder ==
    fn_pc = "queue" =>
        /\ \A p \in Positions(fn_in) \ {0} :
               ~m_less_predicate(fn_in, HeapAt(fn_in, p), HeapAt(fn_in, (p - 1) \div 2))
        /\ \A p \in Positions(fn_in) : ~m_less_predicate(fn_in, HeapAt(fn_in, p), top(fn_in))
        /\ size(fn_in) = fn_out.count

\* remove has left five elements, one of the left subtree less than the root of the
\* right one
RemovedFromSix ==
    /\ fn_pc = "queue" /\ fn_out.op = "remove"
    /\ KeysOf(fn_in) = <<1, 2, 1, 3, 3>>

\* C30: index tracking.  After any sequence of push, pop, remove(idx) and update(idx)
\* the element at each position p of m_heap carries p as the index the index setter
\* gave it, whether T is a pointer or a value that keeps the index in itself; so
\* the position an element carries is the position of that element, the one that
\* remove and update act on.
IndexTracked ==
    fn_pc = "queue" =>
        /\ \A p \in Positions(fn_in) : IndexAt(fn_in, p) = p
        /\ \A p \in Positions(fn_in) :
               IndexAt(fn_in, p) \in Positions(fn_in)
               /\ HeapAt(fn_in, IndexAt(fn_in, p)) = HeapAt(fn_in, p)

=============================================================================
